---- MODULE Spec2Model ----
(***************************************************************************)
(* State-machine model of the hierarchical text chunker of command-utils   *)
(* (src/text/chunking/chunker.rs, config.rs, types.rs) and of the sentence *)
(* splitter it consumes (src/text.rs).                                     *)
(*                                                                         *)
(* A text is a sequence of Unicode code points.  Rust strings are UTF-8,   *)
(* so str::len, str::find and string slicing work in BYTE offsets while    *)
(* chars() works in code points; the model keeps both apart (ByteLen,      *)
(* ByteOffset, IsCharBoundary).  Rust indices are 0-based: the slice       *)
(* s[a..b] is SubSeq(s, a + 1, b) and s[i] is s[i + 1] here.               *)
(***************************************************************************)
EXTENDS Integers, Sequences, FiniteSets, TLC

(***************************************************************************)
(* Bounds of the model.                                                    *)
(***************************************************************************)
\* longest input text, in characters
MaxLen == 4
\* largest max_chunk_tokens / min_chunk_tokens a configuration may carry
MaxTok == 3
\* cap on the iterations of one forced-splitting loop (a loop that stops
\* advancing would otherwise grow its chunk list for ever)
MaxForcedChunks == 7

\* 'a', ' ', '\n', '!' and the three-byte letter U+3042
Alphabet == {97, 32, 10, 33, 12354}

Texts == UNION {[1..n -> Alphabet] : n \in 0..MaxLen}

(***************************************************************************)
(* Arithmetic and string primitives of the Rust standard library.          *)
(***************************************************************************)
Min(a, b) == IF a <= b THEN a ELSE b

Max(a, b) == IF a >= b THEN a ELSE b

\* usize::div_ceil
DivCeil(a, b) == (a + b - 1) \div b

\* usize::saturating_sub
SaturatingSub(a, b) == IF a >= b THEN a - b ELSE 0

\* char::is_whitespace (Unicode White_Space), also what trim() and \s use
IsWhitespace(c) ==
    \/ c \in {9, 10, 11, 12, 13, 32, 133, 160, 5760, 8232, 8233, 8239, 8287, 12288}
    \/ (c >= 8192 /\ c <= 8202)

\* char::len_utf8
Utf8Len(c) == IF c < 128 THEN 1 ELSE IF c < 2048 THEN 2 ELSE IF c < 65536 THEN 3 ELSE 4

\* str::len: the length in bytes
RECURSIVE ByteLen(_)
ByteLen(s) == IF s = <<>> THEN 0 ELSE Utf8Len(Head(s)) + ByteLen(Tail(s))

\* byte offset at which the character with 0-based index n starts
ByteOffset(s, n) == ByteLen(SubSeq(s, 1, n))

\* str::is_char_boundary
IsCharBoundary(s, b) == \E n \in 0..Len(s) : ByteOffset(s, n) = b

\* the 0-based character index of a byte offset that is a char boundary
CharIndexOfByte(s, b) == CHOOSE n \in 0..Len(s) : ByteOffset(s, n) = b

RECURSIVE TrimStart(_)
TrimStart(s) ==
    IF s # <<>> /\ IsWhitespace(Head(s)) THEN TrimStart(Tail(s)) ELSE s

RECURSIVE TrimEnd(_)
TrimEnd(s) ==
    IF s # <<>> /\ IsWhitespace(s[Len(s)]) THEN TrimEnd(SubSeq(s, 1, Len(s) - 1)) ELSE s

\* str::trim
Trim(s) == TrimEnd(TrimStart(s))

\* [String]::join
RECURSIVE Join(_, _)
Join(strs, sep) ==
    IF strs = <<>> THEN <<>>
    ELSE IF Len(strs) = 1 THEN strs[1]
    ELSE strs[1] \o sep \o Join(Tail(strs), sep)

\* str::find on a valid UTF-8 needle always matches at a character boundary,
\* so the search runs on characters: the 0-based character index of the first
\* occurrence of needle in hay, or -1 for None
Find(hay, needle) ==
    LET cands == {p \in 0..(Len(hay) - Len(needle)) :
                     SubSeq(hay, p + 1, p + Len(needle)) = needle}
    IN  IF cands = {} THEN -1 ELSE CHOOSE p \in cands : \A q \in cands : p <= q

\* (1..=n as u32).collect()
Iota(n) == [i \in 1..n |-> i]

(***************************************************************************)
(* SentenceSplitter::split with the splitter SentenceSplitterCreator::new( *)
(* None, None, None, None).create() builds: the default delimiters, the    *)
(* default bracket pairs, no force characters, buffer length 512.          *)
(***************************************************************************)
DEFAULT_MAX_LENGTH == 512

\* '。', '．', '！', '？', '!', '?', '\n'
DELIMITER_CHARS == {12290, 65294, 65281, 65311, 33, 63, 10}

\* ('「', '」'), ('『', '』'), ('【', '】'): opening bracket -> closing bracket
PARENTHESE_PAIRS == [c \in {12300, 12302, 12304} |-> c + 1]

\* force.unwrap_or_default(): the empty set
ForceChars == {}

RECURSIVE SplitLoop(_, _, _, _, _)
SplitLoop(text, i, buf0, waiting_stack, sentences) ==
    IF i > Len(text)
    THEN IF buf0 # <<>> THEN Append(sentences, buf0) ELSE sentences
    ELSE
      LET c == text[i]
          buf == Append(buf0, c)
          \* the state after the bracket / delimiter cascade
          st == IF c \in DOMAIN PARENTHESE_PAIRS
                THEN [buf |-> buf, ws |-> Append(waiting_stack, PARENTHESE_PAIRS[c]),
                      ss |-> sentences]
                ELSE IF waiting_stack # <<>>
                THEN IF c = waiting_stack[Len(waiting_stack)]
                     THEN [buf |-> buf,
                           ws |-> SubSeq(waiting_stack, 1, Len(waiting_stack) - 1),
                           ss |-> sentences]
                     ELSE IF c \in ForceChars
                     THEN [buf |-> <<>>, ws |-> <<>>, ss |-> Append(sentences, buf)]
                     ELSE [buf |-> buf, ws |-> waiting_stack, ss |-> sentences]
                ELSE IF c \in DELIMITER_CHARS
                THEN [buf |-> <<>>, ws |-> waiting_stack, ss |-> Append(sentences, buf)]
                ELSE [buf |-> buf, ws |-> waiting_stack, ss |-> sentences]
      IN  IF Len(st.buf) >= DEFAULT_MAX_LENGTH
          THEN SplitLoop(text, i + 1, <<>>, <<>>, Append(st.ss, st.buf))
          ELSE SplitLoop(text, i + 1, st.buf, st.ws, st.ss)

SentenceSplit(text) == SplitLoop(text, 1, <<>>, <<>>, <<>>)

(***************************************************************************)
(* Paragraph boundary detection: the regex \n\s*\n|\n\s*[　\t] and the     *)
(* find_iter loop of detect_paragraph_boundaries_fast.                     *)
(***************************************************************************)
\* end (exclusive, 0-based) of the maximal whitespace run that starts at q
RECURSIVE WhitespaceRunEnd(_, _)
WhitespaceRunEnd(text, q) ==
    IF q < Len(text) /\ IsWhitespace(text[q + 1]) THEN WhitespaceRunEnd(text, q + 1) ELSE q

\* The match of the paragraph regex \n\s*\n|\n\s*[\u3000\t] that starts exactly
\* at 0-based index p: its end (exclusive), or -1.  Both alternatives begin
\* with \n\s* and the greedy \s* is shared by them: the match ends after the
\* last '\n', full-width space or tab of the whitespace run that follows
\* text[p], whichever alternative that character belongs to.
ParagraphRegexMatchAt(text, p) ==
    IF p >= Len(text) \/ text[p + 1] # 10 THEN -1
    ELSE LET q == WhitespaceRunEnd(text, p + 1)
             last == {j \in (p + 1)..(q - 1) : text[j + 1] \in {10, 12288, 9}}
         IN  IF last # {} THEN (CHOOSE j \in last : \A k \in last : k <= j) + 1
             ELSE -1

\* Regex::find_iter: the successive non-overlapping leftmost matches from pos on
RECURSIVE ParagraphRegexFindIter(_, _)
ParagraphRegexFindIter(text, pos) ==
    IF pos >= Len(text) THEN <<>>
    ELSE LET e == ParagraphRegexMatchAt(text, pos)
         IN  IF e = -1 THEN ParagraphRegexFindIter(text, pos + 1)
             ELSE <<[start |-> pos, end |-> e]>> \o ParagraphRegexFindIter(text, e)

\* ParagraphInfo: content with its char_start / char_end, which the code takes
\* from Match::start / Match::end / str::len, i.e. in bytes
ParagraphInfo(text, from, to) ==
    [content |-> SubSeq(text, from + 1, to),
     char_start |-> ByteOffset(text, from),
     char_end |-> ByteOffset(text, to)]

RECURSIVE ParagraphsBetween(_, _, _)
ParagraphsBetween(text, matches, last_end) ==
    IF matches = <<>>
    THEN IF last_end < Len(text) /\ Trim(SubSeq(text, last_end + 1, Len(text))) # <<>>
         THEN <<ParagraphInfo(text, last_end, Len(text))>>
         ELSE <<>>
    ELSE LET m == Head(matches)
             here == IF m.start > last_end
                        /\ Trim(SubSeq(text, last_end + 1, m.start)) # <<>>
                     THEN <<ParagraphInfo(text, last_end, m.start)>>
                     ELSE <<>>
         IN  here \o ParagraphsBetween(text, Tail(matches), m.end)

detect_paragraph_boundaries_fast(text) ==
    LET paragraphs == ParagraphsBetween(text, ParagraphRegexFindIter(text, 0), 0)
    IN  IF paragraphs = <<>> /\ Trim(text) # <<>>
        THEN <<[content |-> Trim(text), char_start |-> 0, char_end |-> ByteLen(text)]>>
        ELSE paragraphs

(***************************************************************************)
(* TokenizationCache (config.rs).  A HashMap is a function from keys to    *)
(* values; the keys are texts.  Eviction removes keys().take(max / 2): the *)
(* iteration order of a HashMap is unspecified, so any max / 2 keys may go.*)
(***************************************************************************)
None == <<>>

Some(v) == <<v>>

EmptyMap == [t \in {} |-> 0]

MapPut(f, k, v) == [t \in DOMAIN f \cup {k} |-> IF t = k THEN v ELSE f[t]]

MapRemove(f, K) == [t \in DOMAIN f \ K |-> f[t]]

\* TokenizationCache::default()
TokenizationCacheDefault ==
    [estimation_cache |-> EmptyMap, tokenization_cache |-> EmptyMap,
     max_cache_size |-> 1000, enabled |-> TRUE]

\* TokenizationCache::new(max_size)
TokenizationCacheNew(max_size) ==
    [TokenizationCacheDefault EXCEPT !.max_cache_size = max_size]

\* TokenizationCache::disabled()
TokenizationCacheDisabled == [TokenizationCacheDefault EXCEPT !.enabled = FALSE]

\* the maps a HashMap f may be after the eviction step of cache_estimate /
\* cache_tokens: when len >= max_cache_size, some max_cache_size / 2 keys go
EvictHalf(f, max_cache_size) ==
    IF Cardinality(DOMAIN f) >= max_cache_size
    THEN IF max_cache_size \div 2 = 0 THEN {f}
         ELSE {MapRemove(f, K) : K \in {S \in SUBSET DOMAIN f :
                                           Cardinality(S) = max_cache_size \div 2}}
    ELSE {f}

\* get_estimate answering one token more than the count it holds
get_estimate_one_more(cache, t) ==
    IF ~cache.enabled THEN None
    ELSE IF t \in DOMAIN cache.estimation_cache THEN Some(cache.estimation_cache[t] + 1)
    ELSE None

get_estimate(cache, t) ==
    IF ~cache.enabled THEN None
    ELSE IF t \in DOMAIN cache.estimation_cache THEN Some(cache.estimation_cache[t])
    ELSE None

\* cache_estimate keeping one token more than it was given
cache_estimate_one_more(cache, t, count) ==
    IF ~cache.enabled THEN {cache}
    ELSE {[cache EXCEPT !.estimation_cache = MapPut(f, t, count + 1)] :
             f \in EvictHalf(cache.estimation_cache, cache.max_cache_size)}

\* the set of caches cache_estimate may leave
cache_estimate(cache, t, count) ==
    IF ~cache.enabled THEN {cache}
    ELSE {[cache EXCEPT !.estimation_cache = MapPut(f, t, count)] :
             f \in EvictHalf(cache.estimation_cache, cache.max_cache_size)}

get_tokens(cache, t) ==
    IF ~cache.enabled THEN None
    ELSE IF t \in DOMAIN cache.tokenization_cache THEN Some(cache.tokenization_cache[t])
    ELSE None

\* the set of caches cache_tokens may leave
cache_tokens(cache, t, tokens) ==
    IF ~cache.enabled THEN {cache}
    ELSE {[cache EXCEPT !.tokenization_cache = MapPut(f, t, tokens)] :
             f \in EvictHalf(cache.tokenization_cache, cache.max_cache_size)}

\* TokenizationCache::clear
cache_clear(cache) ==
    [cache EXCEPT !.estimation_cache = EmptyMap, !.tokenization_cache = EmptyMap]

(***************************************************************************)
(* Token sources.  token_provider is "None" (fallback mode) or one of the   *)
(* these implementations of the TokenProvider trait:                       *)
(*   "Mock": the MockTokenProvider of the chunker's tests, one token per 4 *)
(*           bytes and no token spans;                                     *)
(*   "MockSpans": the MockTokenProvider of the configuration's tests, one  *)
(*           token per 4 bytes, token i spanning bytes 4i .. min(4i+4,len);*)
(*   "SpansError": counts and tokenizes like the mocks, and its            *)
(*           get_token_spans returns Err (the trait's signature is         *)
(*           Result<Option<Vec<(usize, usize)>>, Self::Error>).            *)
(* A provider call yields [err, v]; err = "" is Ok(v).                     *)
(***************************************************************************)
Providers == {"Mock", "MockSpans", "SpansError"}

FallbackStrategies == {"CharacterEstimation", "CharacterLimit", "RequireTokenProvider"}

Ok(v) == [err |-> "", v |-> v]

Err(kind) == [err |-> kind, v |-> 0]

provider_estimate_token_count(provider, t) == Ok(DivCeil(ByteLen(t), 4))

provider_tokenize(provider, t) == Ok(Iota(DivCeil(ByteLen(t), 4)))

provider_get_token_spans(provider, t) ==
    IF provider = "Mock" THEN Ok(None)
    ELSE IF provider = "SpansError" THEN Err("get_token_spans failed")
    ELSE Ok(Some([i \in 1..DivCeil(ByteLen(t), 4) |->
                    <<(i - 1) * 4, Min(i * 4, ByteLen(t))>>]))

(***************************************************************************)
(* calculate_token_count and tokenize_text.  self is the immutable part of *)
(* the chunker, [config, token_provider, fallback_strategy]; the cache is  *)
(* threaded through: each call yields the SET of outcomes [err, v, c] it   *)
(* may have, c being the cache it leaves (one outcome unless an eviction   *)
(* has a choice of keys).                                                  *)
(***************************************************************************)
Out(err, v, c) == [err |-> err, v |-> v, c |-> c]

calculate_token_count(self, cache, t) ==
    IF get_estimate(cache, t) # None
    THEN {Out("", get_estimate(cache, t)[1], cache)}
    ELSE LET result ==
               IF self.token_provider # "None"
               THEN LET r == provider_estimate_token_count(self.token_provider, t)
                    IN  IF r.err = "" THEN r ELSE Err("TokenProvider")
               ELSE IF self.fallback_strategy = "CharacterEstimation"
                    THEN Ok(DivCeil(ByteLen(t), 4))
               ELSE IF self.fallback_strategy = "CharacterLimit"
                    THEN Ok(ByteLen(t))
               ELSE Err("Configuration")
         IN  IF result.err = ""
             THEN {Out("", result.v, c) : c \in cache_estimate(cache, t, result.v)}
             ELSE {Out(result.err, 0, cache)}

tokenize_text(self, cache, t) ==
    IF get_tokens(cache, t) # None
    THEN {Out("", get_tokens(cache, t)[1], cache)}
    ELSE IF self.token_provider # "None"
    THEN LET r == provider_tokenize(self.token_provider, t)
         IN  IF r.err = ""
             THEN {Out("", r.v, c) : c \in cache_tokens(cache, t, r.v)}
             ELSE {Out("Tokenization", <<>>, cache)}
    ELSE UNION {IF e.err # "" THEN {Out(e.err, <<>>, e.c)}
                ELSE {Out("", Iota(e.v), c) : c \in cache_tokens(e.c, t, Iota(e.v))} :
                   e \in calculate_token_count(self, cache, t)}

(***************************************************************************)
(* find_forced_split_position: binary search for the furthest end offset   *)
(* whose prefix fits max_chunk_tokens, then a backward scan for a break    *)
(* character.  Offsets are character indices into chars.                   *)
(***************************************************************************)
search_range == 20

\* chars[i].is_whitespace() || "。！？.!?、,".contains(chars[i])
IsBreakChar(c) == IsWhitespace(c) \/ c \in {12290, 65281, 65311, 46, 33, 63, 12289, 44}

\* while low <= high { ... }: a failed count is treated like one over the budget
RECURSIVE ForcedBinarySearch(_, _, _, _, _, _, _)
ForcedBinarySearch(self, cache, chars, start_pos, low, high, best_pos) ==
    IF low > high THEN {Out("", best_pos, cache)}
    ELSE LET mid == (low + high) \div 2
             test_text == SubSeq(chars, start_pos + 1, mid)
         IN  UNION {IF r.err = "" /\ r.v <= self.config.max_chunk_tokens
                    THEN ForcedBinarySearch(self, r.c, chars, start_pos, mid + 1, high, mid)
                    ELSE ForcedBinarySearch(self, r.c, chars, start_pos, low, mid - 1,
                                            best_pos) :
                       r \in calculate_token_count(self, cache, test_text)}

\* for i in (search_start..min(best_pos, search_end)).rev() { ... }, from index i
\* downwards.  The slice chars[start_pos..i + 1] panics when start_pos > i + 1.
RECURSIVE ForcedBreakScan(_, _, _, _, _, _, _)
ForcedBreakScan(self, cache, chars, start_pos, search_start, i, best_pos) ==
    IF i < search_start THEN {Out("", best_pos, cache)}
    ELSE IF ~IsBreakChar(chars[i + 1])
    THEN ForcedBreakScan(self, cache, chars, start_pos, search_start, i - 1, best_pos)
    ELSE IF start_pos > i + 1 THEN {Out("panic", 0, cache)}
    ELSE UNION {IF r.err = "" /\ r.v <= self.config.max_chunk_tokens
                THEN {Out("", i + 1, r.c)}
                ELSE ForcedBreakScan(self, r.c, chars, start_pos, search_start, i - 1,
                                     best_pos) :
                   r \in calculate_token_count(self, cache,
                                               SubSeq(chars, start_pos + 1, i + 1))}

find_forced_split_position(self, cache, chars, start_pos) ==
    IF Len(chars) - start_pos = 0 THEN {Out("", Len(chars), cache)}
    ELSE LET initial_estimate ==
                 Min(start_pos + self.config.max_chunk_tokens * 3, Len(chars))
         IN  UNION {LET best_pos == b.v
                        search_start == SaturatingSub(best_pos, search_range)
                        search_end == Min(best_pos + search_range, Len(chars))
                    IN  ForcedBreakScan(self, b.c, chars, start_pos, search_start,
                                        Min(best_pos, search_end) - 1, best_pos) :
                       b \in ForcedBinarySearch(self, cache, chars, start_pos,
                                                start_pos + 1, initial_estimate,
                                                start_pos + 1)}

(***************************************************************************)
(* HierarchicalChunkingConfig::validate, ChunkingStatistics, chunks.       *)
(***************************************************************************)
\* validate with the second test weakened to min_chunk_tokens > max_chunk_tokens
validate_min_may_equal_max(cfg) ==
    IF cfg.max_chunk_tokens = 0
    THEN Err("max_chunk_tokens must be greater than 0")
    ELSE IF cfg.min_chunk_tokens > cfg.max_chunk_tokens
    THEN Err("min_chunk_tokens must be less than max_chunk_tokens")
    ELSE IF ~cfg.enable_sentence_splitting /\ ~cfg.enable_forced_splitting
    THEN Err("At least one splitting method must be enabled")
    ELSE Ok(0)

validate(cfg) ==
    IF cfg.max_chunk_tokens = 0
    THEN Err("max_chunk_tokens must be greater than 0")
    ELSE IF cfg.min_chunk_tokens >= cfg.max_chunk_tokens
    THEN Err("min_chunk_tokens must be less than max_chunk_tokens")
    ELSE IF ~cfg.enable_sentence_splitting /\ ~cfg.enable_forced_splitting
    THEN Err("At least one splitting method must be enabled")
    ELSE Ok(0)

\* ChunkingStatistics::new(); the durations and the float metrics derived from
\* them are left out, the counters are kept
StatisticsNew ==
    [input_char_count |-> 0, detected_paragraph_count |-> 0,
     total_chunks_created |-> 0, complete_paragraph_chunks |-> 0,
     merged_paragraph_chunks |-> 0, sentence_based_chunks |-> 0,
     forced_split_chunks |-> 0, total_tokens_processed |-> 0,
     max_tokens_in_chunk |-> 0, min_tokens_in_chunk |-> 0]

record_chunk_creation(st, chunk_type) ==
    LET st1 == [st EXCEPT !.total_chunks_created = @ + 1]
    IN  IF chunk_type = "CompleteParagraph"
        THEN [st1 EXCEPT !.complete_paragraph_chunks = @ + 1]
        ELSE IF chunk_type = "MergedParagraphs"
        THEN [st1 EXCEPT !.merged_paragraph_chunks = @ + 1]
        ELSE IF chunk_type = "SentenceBasedSplit"
        THEN [st1 EXCEPT !.sentence_based_chunks = @ + 1]
        ELSE IF chunk_type = "ForcedSplit"
        THEN [st1 EXCEPT !.forced_split_chunks = @ + 1]
        ELSE st1

record_token_stats(st, token_count) ==
    [st EXCEPT
       !.total_tokens_processed = @ + token_count,
       !.max_tokens_in_chunk =
           IF @ = 0 \/ token_count > @ THEN token_count ELSE @,
       !.min_tokens_in_chunk =
           IF @ = 0 \/ token_count < @ THEN token_count ELSE @]

\* HierarchicalChunk::new (metadata starts empty and is never written here)
\* a chunk whose content has lost its leading and trailing whitespace
HierarchicalChunk_trimmed(content, tokens, char_start, char_end, chunk_type, chunk_index) ==
    [content |-> Trim(content), tokens |-> tokens, char_start |-> char_start,
     char_end |-> char_end, chunk_type |-> chunk_type, chunk_index |-> chunk_index]

HierarchicalChunk(content, tokens, char_start, char_end, chunk_type, chunk_index) ==
    [content |-> content, tokens |-> tokens, char_start |-> char_start,
     char_end |-> char_end, chunk_type |-> chunk_type, chunk_index |-> chunk_index]

\* the statistics side of create_chunk
create_chunk_stats(st, chunk_type, tokens) ==
    record_token_stats(record_chunk_creation(st, chunk_type), Len(tokens))

\* for chunk in split_chunks { final_chunks.push(adjust_chunk_index(chunk,
\* final_chunks.len())) }
PushReindexed(final_chunks, split_chunks) ==
    final_chunks \o [i \in 1..Len(split_chunks) |->
                       [split_chunks[i] EXCEPT !.chunk_index = Len(final_chunks) + i - 1]]

\* for chunk in forced_chunks { chunks.push(adjust_chunk_char_positions(chunk,
\* current_char_pos)); current_char_pos += chunk.content.len() }
RECURSIVE SpliceForced(_, _, _)
SpliceForced(chunks, current_char_pos, forced_chunks) ==
    IF forced_chunks = <<>>
    THEN [chunks |-> chunks, current_char_pos |-> current_char_pos]
    ELSE LET chunk == Head(forced_chunks)
         IN  SpliceForced(
                 Append(chunks, [chunk EXCEPT !.char_start = @ + current_char_pos,
                                              !.char_end = @ + current_char_pos]),
                 current_char_pos + ByteLen(chunk.content),
                 Tail(forced_chunks))

(***************************************************************************)
(* Position reconciliation with token spans (adjust_positions_with_        *)
(* tokenizer).  The outcome is a set: the warn! of the "not enough spans"  *)
(* branch computes token_spans.len() - current_token_pos, which underflows *)
(* when the cursor has run past the spans; that aborts in a build with     *)
(* overflow checks and an enabled warn level, and is harmless otherwise.   *)
(***************************************************************************)
ClampLooksCorrect(chunk, text_len) ==
    LET e == IF chunk.char_end > text_len THEN text_len ELSE chunk.char_end
        s1 == IF chunk.char_start > text_len THEN text_len ELSE chunk.char_start
        s2 == IF s1 > e THEN e ELSE s1
    IN  [chunk EXCEPT !.char_start = s2, !.char_end = e]

RECURSIVE TokenizerAdjustLoop(_, _, _, _, _)
TokenizerAdjustLoop(text_len, chunks, token_spans, chunk_idx, current_token_pos) ==
    IF chunk_idx >= Len(chunks) THEN {[err |-> "", chunks |-> chunks]}
    ELSE
      LET chunk == chunks[chunk_idx + 1]
          n == Len(chunk.tokens)
          positions_look_correct ==
              \/ (chunk_idx = 0 /\ chunk.char_start = 0 /\ chunk.char_end > 0)
              \/ (chunk_idx > 0 /\ chunk.char_start > 0
                  /\ chunk.char_end > chunk.char_start)
          continue(c, pos) ==
              TokenizerAdjustLoop(text_len, [chunks EXCEPT ![chunk_idx + 1] = c],
                                  token_spans, chunk_idx + 1, pos)
      IN  IF positions_look_correct
          THEN continue(ClampLooksCorrect(chunk, text_len), current_token_pos + n)
          ELSE IF current_token_pos + n <= Len(token_spans)
          THEN \* token_spans[current_token_pos], token_spans[current_token_pos + n - 1]
               \* the first index is out of range: nothing has been assigned
               IF current_token_pos >= Len(token_spans)
               THEN {[err |-> "panic", chunks |-> chunks]}
               \* the second index fails after char_start has been assigned
               ELSE IF current_token_pos + n - 1 < 0
               THEN {[err |-> "panic",
                      chunks |-> [chunks EXCEPT ![chunk_idx + 1].char_start =
                                     token_spans[current_token_pos + 1][1]]]}
               ELSE continue(
                        [chunk EXCEPT
                           !.char_start = token_spans[current_token_pos + 1][1],
                           !.char_end = Min(token_spans[current_token_pos + n][2],
                                            text_len)],
                        current_token_pos + n)
          ELSE LET estimated_start ==
                       IF current_token_pos < Len(token_spans)
                       THEN token_spans[current_token_pos + 1][1]
                       ELSE text_len
                   placed == continue(
                       [chunk EXCEPT
                          !.char_start = estimated_start,
                          !.char_end = Min(estimated_start + Len(chunk.content),
                                           text_len)],
                       current_token_pos)
               IN  IF current_token_pos > Len(token_spans)
                   THEN placed \cup {[err |-> "panic", chunks |-> chunks]}
                   ELSE placed

adjust_positions_with_tokenizer(original_text, chunks, token_spans) ==
    TokenizerAdjustLoop(Len(original_text), chunks, token_spans, 0, 0)

(***************************************************************************)
(* One iteration of the loop of adjust_positions_with_string_search, on    *)
(* chunk, with the search cursor current_search_pos (a byte offset).       *)
(* Yields the set of outcomes [err, chunk, current_search_pos].            *)
(***************************************************************************)
\* &chunk.content[..50.min(chunk.content.len())] inside the warn! of the
\* not-found branch: slicing off a char boundary aborts when warn is enabled
WarnPrefixMayPanic(content) == ByteLen(content) > 50 /\ ~IsCharBoundary(content, 50)

SafetyCheck(chunk, text_len) ==
    IF chunk.char_end > text_len
    THEN [chunk EXCEPT !.char_end = text_len,
                       !.char_start = IF @ > text_len THEN text_len ELSE @]
    ELSE chunk

string_search_chunk(original_text, chunk, current_search_pos) ==
    IF current_search_pos > ByteLen(original_text)
       \/ ~IsCharBoundary(original_text, current_search_pos)
    THEN {[err |-> "panic", chunk |-> chunk, current_search_pos |-> current_search_pos]}
    ELSE
      LET from == CharIndexOfByte(original_text, current_search_pos)
          rest == SubSeq(original_text, from + 1, Len(original_text))
          pos == Find(rest, chunk.content)
          global == Find(original_text, chunk.content)
          len == ByteLen(chunk.content)
          text_len == ByteLen(original_text)
          placed(s, csp) ==
              [err |-> "",
               chunk |-> SafetyCheck([chunk EXCEPT !.char_start = s,
                                                   !.char_end = s + len], text_len),
               current_search_pos |-> csp]
      IN  IF pos # -1
          THEN LET actual_start == current_search_pos + ByteOffset(rest, pos)
               IN  {placed(actual_start, actual_start + len)}
          ELSE IF global # -1
          THEN {placed(ByteOffset(original_text, global), current_search_pos)}
          ELSE {placed(current_search_pos, current_search_pos + len)}
               \cup (IF WarnPrefixMayPanic(chunk.content)
                     THEN {[err |-> "panic", chunk |-> chunk,
                            current_search_pos |-> current_search_pos]}
                     ELSE {})

(***************************************************************************)
(* Steps 5, 5.5 and 6 of chunk_efficiently: the two filters, the stable    *)
(* sort by (char_start, char_end) and the reindexing.                      *)
(***************************************************************************)
FilterZeroLength(chunks) ==
    SelectSeq(chunks, LAMBDA chunk : SaturatingSub(chunk.char_end, chunk.char_start) # 0)

\* step 5.5 keeping a chunk one token short of the minimum
FilterMinTokensOneShort(chunks, min_chunk_tokens) ==
    SelectSeq(chunks, LAMBDA chunk : ~(Len(chunk.tokens) + 1 < min_chunk_tokens))

FilterMinTokens(chunks, min_chunk_tokens) ==
    SelectSeq(chunks, LAMBDA chunk : ~(Len(chunk.tokens) < min_chunk_tokens))

\* the sort key (chunk.char_start, chunk.char_end), compared lexicographically
KeyLessEq(a, b) ==
    \/ a.char_start < b.char_start
    \/ (a.char_start = b.char_start /\ a.char_end <= b.char_end)

\* insert chunk behind every element whose key is <= its own (stable)
RECURSIVE InsertByKey(_, _)
InsertByKey(sorted, chunk) ==
    IF sorted = <<>> THEN <<chunk>>
    ELSE IF KeyLessEq(Head(sorted), chunk)
    THEN <<Head(sorted)>> \o InsertByKey(Tail(sorted), chunk)
    ELSE <<chunk>> \o sorted

\* step 6 without the sort
SortByKeySkipped(chunks) == chunks

\* final_chunks.sort_by_key(|chunk| (chunk.char_start, chunk.char_end))
RECURSIVE SortByKey(_)
SortByKey(chunks) ==
    IF chunks = <<>> THEN <<>>
    ELSE InsertByKey(SortByKey(SubSeq(chunks, 1, Len(chunks) - 1)), chunks[Len(chunks)])

\* for (idx, chunk) in final_chunks.iter_mut().enumerate() { chunk.chunk_index = idx }
Reindex(chunks) == [i \in 1..Len(chunks) |-> [chunks[i] EXCEPT !.chunk_index = i - 1]]

FilterSortReindex(chunks, min_chunk_tokens) ==
    Reindex(SortByKey(FilterMinTokens(FilterZeroLength(chunks), min_chunk_tokens)))

(***************************************************************************)
(* The state: one HierarchicalChunker and the call of chunk_efficiently in *)
(* progress on it.                                                         *)
(*   config, token_provider, fallback_strategy, tokenization_cache,        *)
(*   statistics: the fields of the chunker;                                *)
(*   pc: where control is;  text: the argument of chunk_efficiently;       *)
(*   run: the locals of chunk_efficiently;                                 *)
(*   sent: the locals of split_paragraph_by_sentences;                     *)
(*   forced: the locals of apply_forced_splitting, and which call site     *)
(*           it returns to;                                                *)
(*   merge: the locals of merge_small_paragraphs_simple;                   *)
(*   adjust: the locals of adjust_positions_with_string_search;            *)
(*   result: what the constructor or the last call of chunk_efficiently    *)
(*           returned;                                                     *)
(*   history: what the calls of chunk_efficiently on this chunker returned *)
(*           to the caller, in order.                                      *)
(***************************************************************************)
VARIABLES config, token_provider, fallback_strategy, tokenization_cache, statistics,
          pc, text, run, sent, forced, merge, adjust, result, history,
          batch, sliding, merger, stack, snapshots, scoped, shutdown, recorded

vars == <<config, token_provider, fallback_strategy, tokenization_cache, statistics,
          pc, text, run, sent, forced, merge, adjust, result, history,
          batch, sliding, merger, stack, snapshots, scoped, shutdown, recorded>>

\* the state of the utilities that are not part of a chunker
\* the ScopedCache and its tasks, the shutdown pair, the recorded token counts
other_vars == <<scoped, shutdown, recorded>>

util_vars == <<sliding, merger, stack, snapshots, other_vars>>

\* the state of a chunker and of the call in progress on it
chunker_vars == <<config, token_provider, fallback_strategy, tokenization_cache,
                  statistics, pc, text, run, sent, forced, merge, adjust, result,
                  history, batch>>

Self == [config |-> config, token_provider |-> token_provider,
         fallback_strategy |-> fallback_strategy]

NoRun == [paragraphs |-> <<>>, paragraph_index |-> 0, final_chunks |-> <<>>,
          pending_small_paragraphs |-> <<>>]

NoSent == [sentences |-> <<>>, sentence_index |-> 0, chunks |-> <<>>,
           current_sentences |-> <<>>, current_char_pos |-> 0]

NoForced == [chars |-> <<>>, start_pos |-> 0, chunks |-> <<>>, caller |-> ""]

NoMerge == [merged_chunks |-> <<>>, current_group |-> <<>>, index |-> 0]

NoAdjust == [current_search_pos |-> 0, chunk_idx |-> 0]

NoResult == [status |-> "None", error |-> "", chunks |-> <<>>]

Configs ==
    [max_chunk_tokens : 0..MaxTok, min_chunk_tokens : 0..MaxTok,
     enable_paragraph_merging : BOOLEAN, enable_sentence_splitting : BOOLEAN,
     enable_forced_splitting : BOOLEAN]

NoBatch == [texts |-> <<>>, status |-> "None", error |-> "", results |-> <<>>,
            total_input_chars |-> 0, total_output_chunks |-> 0, compared |-> FALSE]

NoSliding == [text_length |-> 0, instruction_length |-> 0, max_seq_length |-> 0,
              window_stride |-> 0, min_window_size |-> 0,
              status |-> "None", error |-> "", positions |-> <<>>]

NoMerger == [embeddings |-> <<>>, merge_strategy |-> "WeightedAverage",
             status |-> "None", error |-> "", merged |-> <<>>]

NoStack == [current_state |-> <<>>, history |-> <<>>, initial_state |-> <<>>]

NoScoped == [cache |-> <<>>, tasks |-> <<>>, first |-> <<>>, computed |-> <<>>]

NoShutdown == [locks |-> <<>>, wait |-> "none"]

OthersUnused ==
    /\ scoped = NoScoped
    /\ shutdown = NoShutdown
    /\ recorded = <<>>

UtilitiesUnused ==
    /\ sliding = NoSliding
    /\ merger = NoMerger
    /\ stack = NoStack
    /\ snapshots = <<>>
    /\ OthersUnused

\* Before the constructor has run: its arguments.  A provider goes to
\* HierarchicalChunker::new (with fallback_strategy None, hence the default),
\* no provider to new_fallback with any of the three strategies.
Init ==
    /\ batch = NoBatch
    /\ UtilitiesUnused
    /\ config \in Configs
    /\ token_provider \in Providers \cup {"None"}
    /\ fallback_strategy \in FallbackStrategies
    /\ token_provider # "None" => fallback_strategy = "CharacterEstimation"
    /\ tokenization_cache = TokenizationCacheDefault
    /\ statistics = StatisticsNew
    /\ pc = "new"
    /\ text = <<>>
    /\ run = NoRun
    /\ sent = NoSent
    /\ forced = NoForced
    /\ merge = NoMerge
    /\ adjust = NoAdjust
    /\ result = NoResult
    /\ history = <<>>

(***************************************************************************)
(* HierarchicalChunker::new / new_fallback.                                *)
(***************************************************************************)
New ==
    /\ pc = "new"
    /\ IF token_provider = "None" /\ fallback_strategy = "RequireTokenProvider"
       THEN /\ pc' = "config_error"
            /\ result' = [status |-> "Err", error |-> "Configuration", chunks |-> <<>>]
       ELSE IF validate(config).err # ""
       THEN /\ pc' = "config_error"
            /\ result' = [status |-> "Err", error |-> "Configuration", chunks |-> <<>>]
       ELSE /\ pc' = "idle"
            /\ result' = NoResult
    /\ tokenization_cache' = TokenizationCacheDefault
    /\ statistics' = StatisticsNew
    /\ UNCHANGED util_vars
    /\ UNCHANGED <<batch, config, token_provider, fallback_strategy, text, run, sent, forced,
                   merge, adjust, history>>

(***************************************************************************)
(* How a call of chunk_efficiently ends or moves on.  Each of these        *)
(* assigns every variable.                                                 *)
(***************************************************************************)
\* return Err(kind) / Ok(chunks): the locals are dropped
Return(res, cache, st) ==
    /\ pc' = "returned"
    /\ result' = res
    /\ history' = Append(history, res)
    /\ tokenization_cache' = cache
    /\ statistics' = st
    /\ run' = NoRun /\ sent' = NoSent /\ forced' = NoForced
    /\ merge' = NoMerge /\ adjust' = NoAdjust
    /\ UNCHANGED util_vars
    /\ UNCHANGED <<batch, config, token_provider, fallback_strategy, text>>

ReturnErr(kind, cache, st) ==
    Return([status |-> "Err", error |-> kind, chunks |-> <<>>], cache, st)

\* a panic: an out-of-range index or slice aborts the call
Panic(cache, st) ==
    /\ pc' = "panicked"
    /\ result' = [status |-> "Panic", error |-> "", chunks |-> <<>>]
    /\ tokenization_cache' = cache
    /\ statistics' = st
    /\ UNCHANGED util_vars
    /\ UNCHANGED <<batch, config, token_provider, fallback_strategy, text, run, sent, forced,
                   merge, adjust, history>>

\* control moves to location loc with these locals
Goto(loc, cache, st, r, s, f, m, a) ==
    /\ pc' = loc
    /\ tokenization_cache' = cache
    /\ statistics' = st
    /\ run' = r /\ sent' = s /\ forced' = f /\ merge' = m /\ adjust' = a
    /\ UNCHANGED util_vars
    /\ UNCHANGED <<batch, config, token_provider, fallback_strategy, text, result, history>>

\* apply_forced_splitting entered without looking at enable_forced_splitting
EnterForcedUnchecked(t, caller, cache, st, r, s) ==
    Goto("forced", cache, st, r, s,
         [chars |-> t, start_pos |-> 0, chunks |-> <<>>, caller |-> caller],
         NoMerge, NoAdjust)

\* the call self.apply_forced_splitting(t) made from call site caller
EnterForced(t, caller, cache, st, r, s) ==
    IF ~config.enable_forced_splitting
    THEN ReturnErr("Configuration", cache, st)
    ELSE Goto("forced", cache, st, r, s,
              [chars |-> t, start_pos |-> 0, chunks |-> <<>>, caller |-> caller],
              NoMerge, NoAdjust)

\* split_paragraph_by_sentences returns split_chunks to the paragraph loop
ReturnSplitChunks(split_chunks, cache, st) ==
    Goto("paragraphs", cache, st,
         [run EXCEPT !.final_chunks = PushReindexed(@, split_chunks),
                     !.paragraph_index = @ + 1],
         NoSent, NoForced, NoMerge, NoAdjust)

(***************************************************************************)
(* chunk_efficiently, steps 1 and 2: paragraph detection and the loop over *)
(* the paragraphs.                                                         *)
(***************************************************************************)
\* chunk_efficiently without the early return for a blank text
ChunkEfficientlyOnNoEarlyReturn(t) ==
    LET paragraphs == detect_paragraph_boundaries_fast(t)
    IN  /\ text' = t
        /\ pc' = "paragraphs"
        /\ result' = NoResult
        /\ statistics' = [statistics EXCEPT
                            !.input_char_count = ByteLen(t),
                            !.detected_paragraph_count = Len(paragraphs)]
        /\ run' = [paragraphs |-> paragraphs, paragraph_index |-> 0,
                   final_chunks |-> <<>>, pending_small_paragraphs |-> <<>>]
        /\ UNCHANGED util_vars
        /\ UNCHANGED <<config, token_provider, fallback_strategy, tokenization_cache,
                       sent, forced, merge, adjust, history>>

ChunkEfficientlyOn(t) ==
    /\ text' = t
    /\ UNCHANGED util_vars
    /\ UNCHANGED <<config, token_provider, fallback_strategy>>
    /\ IF Trim(t) = <<>>
       THEN /\ pc' = "returned"
            /\ result' = [status |-> "Ok", error |-> "", chunks |-> <<>>]
            /\ history' = Append(history, result')
            /\ UNCHANGED <<tokenization_cache, statistics, run, sent, forced, merge,
                           adjust>>
       ELSE LET paragraphs == detect_paragraph_boundaries_fast(t)
            IN  /\ pc' = "paragraphs"
                /\ result' = NoResult
                /\ statistics' = [statistics EXCEPT
                                    !.input_char_count = ByteLen(t),
                                    !.detected_paragraph_count = Len(paragraphs)]
                /\ run' = [paragraphs |-> paragraphs, paragraph_index |-> 0,
                           final_chunks |-> <<>>, pending_small_paragraphs |-> <<>>]
                /\ UNCHANGED <<tokenization_cache, sent, forced, merge, adjust, history>>

ChunkEfficiently ==
    /\ pc = "idle"
    /\ \E t \in Texts : ChunkEfficientlyOn(t)
    /\ UNCHANGED batch

ProcessParagraph ==
    /\ pc = "paragraphs"
    /\ run.paragraph_index < Len(run.paragraphs)
    /\ LET paragraph_info == run.paragraphs[run.paragraph_index + 1]
           paragraph_trimmed == Trim(paragraph_info.content)
           next(r) == [r EXCEPT !.paragraph_index = @ + 1]
       IN
       IF paragraph_trimmed = <<>>
       THEN Goto("paragraphs", tokenization_cache, statistics, next(run),
                 NoSent, NoForced, NoMerge, NoAdjust)
       ELSE
       \E tc \in calculate_token_count(Self, tokenization_cache, paragraph_trimmed) :
         IF tc.err # "" THEN ReturnErr(tc.err, tc.c, statistics)
         ELSE IF tc.v <= config.max_chunk_tokens
         THEN \E tk \in tokenize_text(Self, tc.c, paragraph_trimmed) :
                IF tk.err # "" THEN ReturnErr(tk.err, tk.c, statistics)
                ELSE IF tc.v >= config.min_chunk_tokens
                THEN \* perfect size: a complete paragraph
                     Goto("paragraphs", tk.c,
                          create_chunk_stats(statistics, "CompleteParagraph", tk.v),
                          next([run EXCEPT !.final_chunks = Append(@,
                                  HierarchicalChunk(paragraph_trimmed, tk.v,
                                      paragraph_info.char_start, paragraph_info.char_end,
                                      "CompleteParagraph", Len(run.final_chunks)))]),
                          NoSent, NoForced, NoMerge, NoAdjust)
                ELSE \* too small: pending merge
                     Goto("paragraphs", tk.c, statistics,
                          next([run EXCEPT !.pending_small_paragraphs = Append(@,
                                  [content |-> paragraph_trimmed, tokens |-> tk.v,
                                   paragraph_index |-> run.paragraph_index])]),
                          NoSent, NoForced, NoMerge, NoAdjust)
         ELSE \* too large: split_paragraph_by_sentences(paragraph_trimmed)
              IF ~config.enable_sentence_splitting
              THEN EnterForced(paragraph_trimmed, "paragraph", tc.c, statistics, run,
                               NoSent)
              ELSE Goto("sentences", tc.c, statistics, run,
                        [sentences |-> SentenceSplit(paragraph_trimmed),
                         sentence_index |-> 0, chunks |-> <<>>,
                         current_sentences |-> <<>>, current_char_pos |-> 0],
                        NoForced, NoMerge, NoAdjust)

(***************************************************************************)
(* split_paragraph_by_sentences: the loop over the sentences and the       *)
(* processing of the remaining group.                                      *)
(***************************************************************************)
\* the current group dropped instead of finalized
FinalizeGroup_dropping(cache, st, s) == {[err |-> "", c |-> cache, st |-> st, s |-> s]}

\* "Current group is full, finalize it": the outcomes [err, c, st, s] of
\* turning current_sentences into a SentenceBasedSplit chunk
FinalizeGroup(cache, st, s) ==
    IF s.current_sentences = <<>>
    THEN {[err |-> "", c |-> cache, st |-> st, s |-> s]}
    ELSE LET content == Join(s.current_sentences, <<32>>)
         IN  {IF tk.err # "" THEN [err |-> tk.err, c |-> tk.c, st |-> st, s |-> s]
              ELSE [err |-> "", c |-> tk.c,
                    st |-> create_chunk_stats(st, "SentenceBasedSplit", tk.v),
                    s |-> [s EXCEPT
                             !.chunks = Append(@,
                                 HierarchicalChunk(content, tk.v, s.current_char_pos,
                                     s.current_char_pos + ByteLen(content),
                                     "SentenceBasedSplit", Len(s.chunks))),
                             !.current_char_pos = @ + ByteLen(content)]] :
                 tk \in tokenize_text(Self, cache, content)}

ProcessSentence ==
    /\ pc = "sentences"
    /\ sent.sentence_index < Len(sent.sentences)
    /\ LET sentence_trimmed == Trim(sent.sentences[sent.sentence_index + 1])
           next(s) == [s EXCEPT !.sentence_index = @ + 1]
           combined_text ==
               IF sent.current_sentences = <<>> THEN sentence_trimmed
               ELSE Join(sent.current_sentences, <<32>>) \o <<32>> \o sentence_trimmed
       IN
       IF sentence_trimmed = <<>>
       THEN Goto("sentences", tokenization_cache, statistics, run, next(sent),
                 NoForced, NoMerge, NoAdjust)
       ELSE
       \E tc \in calculate_token_count(Self, tokenization_cache, combined_text) :
         IF tc.err # "" THEN ReturnErr(tc.err, tc.c, statistics)
         ELSE IF tc.v <= config.max_chunk_tokens
         THEN Goto("sentences", tc.c, statistics, run,
                   next([sent EXCEPT !.current_sentences = Append(@, sentence_trimmed)]),
                   NoForced, NoMerge, NoAdjust)
         ELSE
         \E fin \in FinalizeGroup(tc.c, statistics, sent) :
           IF fin.err # "" THEN ReturnErr(fin.err, fin.c, fin.st)
           ELSE
           LET started == [fin.s EXCEPT !.current_sentences = <<sentence_trimmed>>]
           IN  \E sc \in calculate_token_count(Self, fin.c, sentence_trimmed) :
                 IF sc.err # "" THEN ReturnErr(sc.err, sc.c, fin.st)
                 ELSE IF sc.v > config.max_chunk_tokens
                 THEN EnterForced(sentence_trimmed, "sentence", sc.c, fin.st, run,
                                  started)
                 ELSE Goto("sentences", sc.c, fin.st, run, next(started),
                           NoForced, NoMerge, NoAdjust)

\* "Process remaining sentences", then Ok(chunks)
FinishSentences ==
    /\ pc = "sentences"
    /\ sent.sentence_index >= Len(sent.sentences)
    /\ IF sent.current_sentences = <<>>
       THEN ReturnSplitChunks(sent.chunks, tokenization_cache, statistics)
       ELSE
       LET content == Join(sent.current_sentences, <<32>>)
       IN  \E tc \in calculate_token_count(Self, tokenization_cache, content) :
             IF tc.err # "" THEN ReturnErr(tc.err, tc.c, statistics)
             ELSE IF tc.v <= config.max_chunk_tokens
             THEN \E tk \in tokenize_text(Self, tc.c, content) :
                    IF tk.err # "" THEN ReturnErr(tk.err, tk.c, statistics)
                    ELSE ReturnSplitChunks(
                             Append(sent.chunks,
                                 HierarchicalChunk(content, tk.v, sent.current_char_pos,
                                     sent.current_char_pos + ByteLen(content),
                                     "SentenceBasedSplit", Len(sent.chunks))),
                             tk.c,
                             create_chunk_stats(statistics, "SentenceBasedSplit", tk.v))
             ELSE EnterForced(content, "remaining", tc.c, statistics, run, sent)

(***************************************************************************)
(* apply_forced_splitting: one iteration of while start_pos < chars.len(), *)
(* and the return to the call site.                                        *)
(***************************************************************************)
ForcedSplitStep ==
    /\ pc = "forced"
    /\ forced.start_pos < Len(forced.chars)
    /\ Len(forced.chunks) < MaxForcedChunks
    /\ \E fp \in find_forced_split_position(Self, tokenization_cache, forced.chars,
                                            forced.start_pos) :
         IF fp.err = "panic" THEN Panic(fp.c, statistics)
         ELSE
         LET end_pos == fp.v
             chunk_text == SubSeq(forced.chars, forced.start_pos + 1, end_pos)
         IN  \E tk \in tokenize_text(Self, fp.c, chunk_text) :
               IF tk.err # "" THEN ReturnErr(tk.err, tk.c, statistics)
               ELSE Goto("forced", tk.c,
                         create_chunk_stats(statistics, "ForcedSplit", tk.v),
                         run, sent,
                         [forced EXCEPT
                            !.chunks = Append(@,
                                HierarchicalChunk(chunk_text, tk.v, forced.start_pos,
                                    end_pos, "ForcedSplit", Len(forced.chunks))),
                            !.start_pos = end_pos],
                         NoMerge, NoAdjust)

ForcedSplitReturn ==
    /\ pc = "forced"
    /\ forced.start_pos >= Len(forced.chars)
    /\ IF forced.caller = "paragraph"
       THEN ReturnSplitChunks(forced.chunks, tokenization_cache, statistics)
       ELSE
       LET spliced == SpliceForced(sent.chunks, sent.current_char_pos, forced.chunks)
       IN  IF forced.caller = "sentence"
           THEN Goto("sentences", tokenization_cache, statistics, run,
                     [sent EXCEPT !.chunks = spliced.chunks,
                                  !.current_char_pos = spliced.current_char_pos,
                                  !.current_sentences = <<>>,
                                  !.sentence_index = @ + 1],
                     NoForced, NoMerge, NoAdjust)
           ELSE ReturnSplitChunks(spliced.chunks, tokenization_cache, statistics)

(***************************************************************************)
(* chunk_efficiently, step 3: the small paragraphs, merged by              *)
(* merge_small_paragraphs_simple or emitted one by one.                    *)
(***************************************************************************)
\* for (content, tokens, _) in pending_small_paragraphs { create_chunk ... }:
\* the outcome [chunks, st] of emitting pending[i..] after chunks
RECURSIVE EmitIndividually(_, _, _, _)
EmitIndividually(pending, i, chunks, st) ==
    IF i > Len(pending) THEN [chunks |-> chunks, st |-> st]
    ELSE EmitIndividually(pending, i + 1,
             Append(chunks,
                 HierarchicalChunk(pending[i].content, pending[i].tokens, 0,
                     ByteLen(pending[i].content), "CompleteParagraph", Len(chunks))),
             create_chunk_stats(st, "CompleteParagraph", pending[i].tokens))

FinishParagraphs ==
    /\ pc = "paragraphs"
    /\ run.paragraph_index >= Len(run.paragraphs)
    /\ IF config.enable_paragraph_merging /\ run.pending_small_paragraphs # <<>>
       THEN Goto("merging", tokenization_cache, statistics, run, NoSent, NoForced,
                 NoMerge, NoAdjust)
       ELSE LET e == EmitIndividually(run.pending_small_paragraphs, 1,
                                      run.final_chunks, statistics)
            IN  Goto("adjust", tokenization_cache, e.st,
                     [run EXCEPT !.final_chunks = e.chunks,
                                 !.pending_small_paragraphs = <<>>],
                     NoSent, NoForced, NoMerge, NoAdjust)

\* the outcomes [err, c, st, merged_chunks] of turning current_group into a
\* MergedParagraphs chunk
FinalizeMergeGroup(cache, st, m) ==
    IF m.current_group = <<>>
    THEN {[err |-> "", c |-> cache, st |-> st, merged_chunks |-> m.merged_chunks]}
    ELSE LET content == Join(m.current_group, <<10, 10>>)
         IN  {IF tk.err # ""
              THEN [err |-> tk.err, c |-> tk.c, st |-> st,
                    merged_chunks |-> m.merged_chunks]
              ELSE [err |-> "", c |-> tk.c,
                    st |-> create_chunk_stats(st, "MergedParagraphs", tk.v),
                    merged_chunks |-> Append(m.merged_chunks,
                        HierarchicalChunk(content, tk.v, 0, 0, "MergedParagraphs",
                                          Len(m.merged_chunks)))] :
                 tk \in tokenize_text(Self, cache, content)}

\* one iteration of for (paragraph, paragraph_tokens, _) in small_paragraphs
MergeStep ==
    /\ pc = "merging"
    /\ merge.index < Len(run.pending_small_paragraphs)
    /\ LET paragraph == run.pending_small_paragraphs[merge.index + 1].content
           combined_text ==
               IF merge.current_group = <<>> THEN paragraph
               ELSE Join(merge.current_group, <<10, 10>>) \o <<10, 10>> \o paragraph
       IN  \E tc \in calculate_token_count(Self, tokenization_cache, combined_text) :
             IF tc.err # "" THEN ReturnErr(tc.err, tc.c, statistics)
             ELSE IF tc.v <= config.max_chunk_tokens
             THEN Goto("merging", tc.c, statistics, run, NoSent, NoForced,
                       [merge EXCEPT !.current_group = Append(@, paragraph),
                                     !.index = @ + 1],
                       NoAdjust)
             ELSE \E fin \in FinalizeMergeGroup(tc.c, statistics, merge) :
                    IF fin.err # "" THEN ReturnErr(fin.err, fin.c, fin.st)
                    ELSE Goto("merging", fin.c, fin.st, run, NoSent, NoForced,
                              [merged_chunks |-> fin.merged_chunks,
                               current_group |-> <<paragraph>>,
                               index |-> merge.index + 1],
                              NoAdjust)

\* "Process remaining group", Ok(merged_chunks), and the push of the merged
\* chunks onto final_chunks
MergeFinish ==
    /\ pc = "merging"
    /\ merge.index >= Len(run.pending_small_paragraphs)
    /\ \E fin \in FinalizeMergeGroup(tokenization_cache, statistics, merge) :
         IF fin.err # "" THEN ReturnErr(fin.err, fin.c, fin.st)
         ELSE Goto("adjust", fin.c, fin.st,
                   [run EXCEPT !.final_chunks = PushReindexed(@, fin.merged_chunks),
                               !.pending_small_paragraphs = <<>>],
                   NoSent, NoForced, NoMerge, NoAdjust)

(***************************************************************************)
(* chunk_efficiently, step 4: adjust_character_positions.                  *)
(***************************************************************************)
AdjustCharacterPositions ==
    /\ pc = "adjust"
    /\ LET spans == IF token_provider = "None" THEN Ok(None)
                    ELSE provider_get_token_spans(token_provider, text)
       IN  IF spans.err = "" /\ spans.v # None
           THEN \E o \in adjust_positions_with_tokenizer(text, run.final_chunks,
                                                         spans.v[1]) :
                  IF o.err = "panic" THEN Panic(tokenization_cache, statistics)
                  ELSE Goto("filter", tokenization_cache, statistics,
                            [run EXCEPT !.final_chunks = o.chunks],
                            NoSent, NoForced, NoMerge, NoAdjust)
           ELSE Goto(IF run.final_chunks = <<>> THEN "filter" ELSE "string_search",
                     tokenization_cache, statistics, run, NoSent, NoForced, NoMerge,
                     [current_search_pos |-> 0, chunk_idx |-> 0])

\* one iteration of the loop of adjust_positions_with_string_search
StringSearchStep ==
    /\ pc = "string_search"
    /\ adjust.chunk_idx < Len(run.final_chunks)
    /\ \E o \in string_search_chunk(text, run.final_chunks[adjust.chunk_idx + 1],
                                    adjust.current_search_pos) :
         IF o.err = "panic" THEN Panic(tokenization_cache, statistics)
         ELSE Goto(IF adjust.chunk_idx + 1 >= Len(run.final_chunks)
                   THEN "filter" ELSE "string_search",
                   tokenization_cache, statistics,
                   [run EXCEPT !.final_chunks[adjust.chunk_idx + 1] = o.chunk],
                   NoSent, NoForced, NoMerge,
                   [current_search_pos |-> o.current_search_pos,
                    chunk_idx |-> adjust.chunk_idx + 1])

(***************************************************************************)
(* chunk_efficiently, steps 5 to 6 and the return of Ok(final_chunks).     *)
(***************************************************************************)
FinishChunking ==
    /\ pc = "filter"
    /\ Return([status |-> "Ok", error |-> "",
               chunks |-> FilterSortReindex(run.final_chunks, config.min_chunk_tokens)],
              tokenization_cache, statistics)

Next ==
    \/ New
    \/ ChunkEfficiently
    \/ ProcessParagraph
    \/ ProcessSentence
    \/ FinishSentences
    \/ ForcedSplitStep
    \/ ForcedSplitReturn
    \/ FinishParagraphs
    \/ MergeStep
    \/ MergeFinish
    \/ AdjustCharacterPositions
    \/ StringSearchStep
    \/ FinishChunking

Spec == Init /\ [][Next]_vars

(***************************************************************************)
(* A chunker used repeatedly: chunk_efficiently again on the same text,    *)
(* with clear_cache and configure_cache between the calls.                 *)
(***************************************************************************)
MaxRerunLen == 3

MaxCalls == 2

MaxCacheSize == 2

RerunTexts == UNION {[1..n -> Alphabet] : n \in 0..MaxRerunLen}

ChunkFirst ==
    /\ pc = "idle"
    /\ \E t \in RerunTexts : ChunkEfficientlyOn(t)
    /\ UNCHANGED batch

ChunkAgain ==
    /\ pc = "returned"
    /\ Len(history) < MaxCalls
    /\ ChunkEfficientlyOn(text)
    /\ UNCHANGED batch

\* HierarchicalChunker::clear_cache
ClearCache ==
    /\ pc \in {"idle", "returned"}
    /\ tokenization_cache' = cache_clear(tokenization_cache)
    /\ UNCHANGED util_vars
    /\ UNCHANGED <<batch, config, token_provider, fallback_strategy, statistics, pc, text, run,
                   sent, forced, merge, adjust, result, history>>

\* HierarchicalChunker::reset_statistics
ResetStatistics ==
    /\ pc \in {"idle", "returned"}
    /\ statistics' = StatisticsNew
    /\ UNCHANGED util_vars
    /\ UNCHANGED <<batch, config, token_provider, fallback_strategy, tokenization_cache, pc,
                   text, run, sent, forced, merge, adjust, result, history>>

\* HierarchicalChunker::configure_cache(max_size, enabled)
ConfigureCache ==
    /\ pc \in {"idle", "returned"}
    /\ \E max_size \in 0..MaxCacheSize, enabled \in BOOLEAN :
         tokenization_cache' = IF enabled THEN TokenizationCacheNew(max_size)
                               ELSE TokenizationCacheDisabled
    /\ UNCHANGED util_vars
    /\ UNCHANGED <<batch, config, token_provider, fallback_strategy, statistics, pc, text, run,
                   sent, forced, merge, adjust, result, history>>

NextRerun ==
    \/ New
    \/ ChunkFirst
    \/ ChunkAgain
    \/ ClearCache
    \/ ConfigureCache
    \/ ResetStatistics
    \/ ProcessParagraph
    \/ ProcessSentence
    \/ FinishSentences
    \/ ForcedSplitStep
    \/ ForcedSplitReturn
    \/ FinishParagraphs
    \/ MergeStep
    \/ MergeFinish
    \/ AdjustCharacterPositions
    \/ StringSearchStep
    \/ FinishChunking

SpecRerun == Init /\ [][NextRerun]_vars

(***************************************************************************)
(* batch_chunk_efficiently: chunk_efficiently on each text in turn, on the *)
(* same chunker.  batch holds the call's arguments, locals and return      *)
(* value; the two totals are what the call stores as custom metrics.  When *)
(* the batch has returned, a second chunker is built from the same         *)
(* arguments (batch.compared) and chunks one of the batch's texts.         *)
(***************************************************************************)
MaxBatch == 2

MaxBatchLen == 2

BatchAlphabet == {97, 32, 33, 12354}

BatchTexts == UNION {[1..n -> BatchAlphabet] : n \in 0..MaxBatchLen}

BatchUnchanged ==
    UNCHANGED <<config, token_provider, fallback_strategy, tokenization_cache, statistics,
                pc, text, run, sent, forced, merge, adjust, result, history, util_vars>>

BatchChunkEfficiently ==
    /\ pc = "idle"
    /\ batch.status = "None"
    /\ \E n \in 0..MaxBatch : \E texts \in [1..n -> BatchTexts] :
         IF n = 0
         THEN /\ batch' = [batch EXCEPT !.status = "Ok"]
              /\ BatchUnchanged
         ELSE /\ batch' = [batch EXCEPT !.texts = texts, !.status = "Running",
                                        !.total_input_chars = ByteLen(texts[1])]
              /\ ChunkEfficientlyOn(texts[1])

\* chunk_efficiently(text)? has returned: the rest of the loop body, and
\* the next iteration up to its call
BatchContinue ==
    /\ pc = "returned"
    /\ batch.status = "Running"
    /\ IF result.status = "Err"
       THEN /\ batch' = [batch EXCEPT !.status = "Err", !.error = result.error,
                                      !.results = <<>>]
            /\ BatchUnchanged
       ELSE LET results == Append(batch.results, result.chunks)
                total_output_chunks == batch.total_output_chunks + Len(result.chunks)
            IN  IF Len(results) = Len(batch.texts)
                THEN /\ batch' = [batch EXCEPT !.status = "Ok", !.results = results,
                                               !.total_output_chunks = total_output_chunks]
                     /\ BatchUnchanged
                ELSE LET next == batch.texts[Len(results) + 1]
                     IN  /\ batch' = [batch EXCEPT
                                        !.results = results,
                                        !.total_output_chunks = total_output_chunks,
                                        !.total_input_chars = @ + ByteLen(next)]
                         /\ ChunkEfficientlyOn(next)

\* HierarchicalChunker::new / new_fallback again, with the same arguments
FreshChunker ==
    /\ pc = "returned"
    /\ batch.status \in {"Ok", "Err"}
    /\ ~batch.compared
    /\ batch' = [batch EXCEPT !.compared = TRUE]
    /\ pc' = "idle"
    /\ result' = NoResult
    /\ tokenization_cache' = TokenizationCacheDefault
    /\ statistics' = StatisticsNew
    /\ UNCHANGED util_vars
    /\ UNCHANGED <<config, token_provider, fallback_strategy, text, run, sent, forced,
                   merge, adjust, history>>

\* chunk_efficiently on the fresh chunker, for a text the batch has chunked
FreshChunk ==
    /\ pc = "idle"
    /\ batch.compared
    /\ \E i \in 1..Len(history) : ChunkEfficientlyOn(batch.texts[i])
    /\ UNCHANGED batch

NextBatch ==
    \/ New
    \/ BatchChunkEfficiently
    \/ BatchContinue
    \/ FreshChunker
    \/ FreshChunk
    \/ ProcessParagraph
    \/ ProcessSentence
    \/ FinishSentences
    \/ ForcedSplitStep
    \/ ForcedSplitReturn
    \/ FinishParagraphs
    \/ MergeStep
    \/ MergeFinish
    \/ AdjustCharacterPositions
    \/ StringSearchStep
    \/ FinishChunking

SpecBatch == Init /\ [][NextBatch]_vars

(***************************************************************************)
(* The utilities below are used without a chunker: the chunker's variables *)
(* then keep the values of NoChunker.                                      *)
(***************************************************************************)
NoChunker ==
    /\ config = [max_chunk_tokens |-> 0, min_chunk_tokens |-> 0,
                 enable_paragraph_merging |-> FALSE,
                 enable_sentence_splitting |-> FALSE,
                 enable_forced_splitting |-> FALSE]
    /\ token_provider = "None"
    /\ fallback_strategy = "CharacterEstimation"
    /\ statistics = StatisticsNew
    /\ pc = "none"
    /\ text = <<>>
    /\ run = NoRun
    /\ sent = NoSent
    /\ forced = NoForced
    /\ merge = NoMerge
    /\ adjust = NoAdjust
    /\ result = NoResult
    /\ history = <<>>
    /\ batch = NoBatch

(***************************************************************************)
(* A TokenizationCache of its own: TokenizationCache::new(max_size), then  *)
(* any sequence of cache_estimate, cache_tokens and clear with any keys.   *)
(***************************************************************************)
MaxCapacity == 3

CacheKeys == {<<>>, <<97>>, <<32>>, <<97, 97>>}

CacheCounts == 0..1

InitCache ==
    /\ NoChunker
    /\ UtilitiesUnused
    /\ \E max_size \in 0..MaxCapacity :
         tokenization_cache = TokenizationCacheNew(max_size)

CacheUnchanged ==
    UNCHANGED <<config, token_provider, fallback_strategy, statistics, pc, text, run,
                sent, forced, merge, adjust, result, history, batch, util_vars>>

CacheEstimate ==
    /\ \E t \in CacheKeys, count \in CacheCounts :
         tokenization_cache' \in cache_estimate(tokenization_cache, t, count)
    /\ CacheUnchanged

CacheTokens ==
    /\ \E t \in CacheKeys, count \in CacheCounts :
         tokenization_cache' \in cache_tokens(tokenization_cache, t, Iota(count))
    /\ CacheUnchanged

CacheClear ==
    /\ tokenization_cache' = cache_clear(tokenization_cache)
    /\ CacheUnchanged

NextCache ==
    \/ CacheEstimate
    \/ CacheTokens
    \/ CacheClear

SpecCache == InitCache /\ [][NextCache]_vars

(***************************************************************************)
(* SlidingWindowCalculator::calculate_sliding_windows.  A call yields      *)
(* [status, error, positions]; status "Hang" is a call that never returns: *)
(* with window_stride = 0 the loop repeats the same window and pushes it   *)
(* on positions without end.                                               *)
(***************************************************************************)
RECURSIVE SlidingLoop(_, _, _, _, _, _, _)
SlidingLoop(start_pos, window_index, positions, text_length, effective_window_size, window_stride, min_window_size) ==
    IF ~(start_pos < text_length)
    THEN [status |-> "Ok", error |-> "", positions |-> positions]
    ELSE LET end_pos == Min(start_pos + effective_window_size, text_length)
             window_size == end_pos - start_pos
         IN  IF window_size < min_window_size /\ window_index > 0
             THEN [status |-> "Ok", error |-> "", positions |-> positions]
             ELSE LET pushed == Append(positions, <<start_pos, end_pos>>)
                  IN  IF end_pos >= text_length
                      THEN [status |-> "Ok", error |-> "", positions |-> pushed]
                      ELSE IF window_stride = 0 /\ window_index > 0
                      THEN [status |-> "Hang", error |-> "", positions |-> <<>>]
                      ELSE SlidingLoop(start_pos + window_stride, window_index + 1,
                                       pushed, text_length, effective_window_size,
                                       window_stride, min_window_size)

calculate_sliding_windows(text_length, instruction_length, max_seq_length, window_stride, min_window_size) ==
    IF instruction_length >= max_seq_length
    THEN [status |-> "Err", error |-> "Configuration", positions |-> <<>>]
    ELSE LET effective_window_size == max_seq_length - instruction_length
         IN  IF text_length <= effective_window_size
             THEN [status |-> "Ok", error |-> "", positions |-> <<<<0, text_length>>>>]
             ELSE SlidingLoop(0, 0, <<>>, text_length, effective_window_size,
                              window_stride, min_window_size)

MaxTextLength == 7

MaxSeqLength == 4

MaxStride == 4

MaxMinWindow == 3

\* the arguments of the call: small ones, and those of test_sliding_window_algorithm
SlidingArguments ==
    [text_length : 0..MaxTextLength, instruction_length : 0..MaxSeqLength,
     max_seq_length : 0..MaxSeqLength, window_stride : 0..MaxStride,
     min_window_size : 0..MaxMinWindow]
    \cup {[text_length |-> 1000, instruction_length |-> 2, max_seq_length |-> 512,
           window_stride |-> 256, min_window_size |-> 64],
          [text_length |-> 100, instruction_length |-> 2, max_seq_length |-> 512,
           window_stride |-> 256, min_window_size |-> 64],
          [text_length |-> 1000, instruction_length |-> 600, max_seq_length |-> 512,
           window_stride |-> 256, min_window_size |-> 64]}

InitSliding ==
    /\ NoChunker
    /\ OthersUnused
    /\ tokenization_cache = TokenizationCacheDefault
    /\ merger = NoMerger
    /\ stack = NoStack
    /\ snapshots = <<>>
    /\ \E a \in SlidingArguments :
         sliding = [text_length |-> a.text_length,
                    instruction_length |-> a.instruction_length,
                    max_seq_length |-> a.max_seq_length,
                    window_stride |-> a.window_stride,
                    min_window_size |-> a.min_window_size,
                    status |-> "None", error |-> "", positions |-> <<>>]

CalculateSlidingWindows ==
    /\ sliding.status = "None"
    /\ LET r == calculate_sliding_windows(sliding.text_length,
                     sliding.instruction_length, sliding.max_seq_length,
                     sliding.window_stride, sliding.min_window_size)
       IN  sliding' = [sliding EXCEPT !.status = r.status, !.error = r.error,
                                      !.positions = r.positions]
    /\ UNCHANGED <<chunker_vars, merger, stack, snapshots, other_vars>>

NextSliding == CalculateSlidingWindows

SpecSliding == InitSliding /\ [][NextSliding]_vars

(***************************************************************************)
(* EmbeddingMerger::merge_embeddings.  An input value is an integer; a     *)
(* merged value is the quotient [num, den] that the f32 arithmetic rounds. *)
(* Weights are in units of 1 / (5 * (num_windows - 1)).                    *)
(***************************************************************************)
MergeStrategies == {"Average", "WeightedAverage", "FirstWindow", "LastWindow"}

Abs(x) == IF x < 0 THEN -x ELSE x

RECURSIVE SumTo(_, _)
SumTo(f, n) == IF n = 0 THEN 0 ELSE SumTo(f, n - 1) + f[n]

\* embedding.clone()
CloneEmbedding(embedding) == [i \in 1..Len(embedding) |-> [num |-> embedding[i], den |-> 1]]

\* SlidingWindowCalculator::calculate_window_weights, window i from 1
calculate_window_weights(num_windows) ==
    [i \in 1..num_windows |->
        IF num_windows > 2
        THEN 6 * (num_windows - 1) - Abs(2 * (i - 1) - (num_windows - 1))
        ELSE 1]

\* embeddings[0] with no embedding, or merged[i] with i beyond the first
\* embedding's dimension: an index out of bounds
MergeIndexOutOfBounds(embeddings) ==
    \/ embeddings = <<>>
    \/ \E k \in 1..Len(embeddings) : Len(embeddings[k]) > Len(embeddings[1])

\* what embedding adds to merged[i]: nothing where it has no coordinate i
Coordinate(embedding, i) == IF i <= Len(embedding) THEN embedding[i] ELSE 0

merge_by_average(embeddings) ==
    IF MergeIndexOutOfBounds(embeddings)
    THEN [status |-> "Panic", error |-> "", merged |-> <<>>]
    ELSE LET embedding_dim == Len(embeddings[1])
         IN  [status |-> "Ok", error |-> "",
              merged |-> [i \in 1..embedding_dim |->
                  [num |-> SumTo([k \in 1..Len(embeddings) |->
                                     Coordinate(embeddings[k], i)],
                                 Len(embeddings)),
                   den |-> Len(embeddings)]]]

merge_by_weighted_average(embeddings) ==
    IF MergeIndexOutOfBounds(embeddings)
    THEN [status |-> "Panic", error |-> "", merged |-> <<>>]
    ELSE LET embedding_dim == Len(embeddings[1])
             weights == calculate_window_weights(Len(embeddings))
             total_weight == SumTo(weights, Len(embeddings))
         IN  [status |-> "Ok", error |-> "",
              merged |-> [i \in 1..embedding_dim |->
                  [num |-> SumTo([k \in 1..Len(embeddings) |->
                                     Coordinate(embeddings[k], i) * weights[k]],
                                 Len(embeddings)),
                   den |-> total_weight]]]

\* merge_embeddings with FirstWindow and LastWindow picking their vector
\* before the dimensions are compared
merge_embeddings_pick_unvalidated(embeddings, merge_strategy) ==
    IF embeddings = <<>>
    THEN [status |-> "Err", error |-> "Validation", merged |-> <<>>]
    ELSE IF merge_strategy = "FirstWindow"
    THEN [status |-> "Ok", error |-> "", merged |-> CloneEmbedding(embeddings[1])]
    ELSE IF merge_strategy = "LastWindow"
    THEN [status |-> "Ok", error |-> "",
          merged |-> CloneEmbedding(embeddings[Len(embeddings)])]
    ELSE IF \E i \in 1..Len(embeddings) : Len(embeddings[i]) # Len(embeddings[1])
    THEN [status |-> "Err", error |-> "Validation", merged |-> <<>>]
    ELSE IF merge_strategy = "Average"
    THEN merge_by_average(embeddings)
    ELSE merge_by_weighted_average(embeddings)

merge_embeddings(embeddings, merge_strategy) ==
    IF embeddings = <<>>
    THEN [status |-> "Err", error |-> "Validation", merged |-> <<>>]
    ELSE IF Len(embeddings) = 1
    THEN [status |-> "Ok", error |-> "", merged |-> CloneEmbedding(embeddings[1])]
    ELSE IF \E i \in 1..Len(embeddings) : Len(embeddings[i]) # Len(embeddings[1])
    THEN [status |-> "Err", error |-> "Validation", merged |-> <<>>]
    ELSE CASE merge_strategy = "Average" -> merge_by_average(embeddings)
           [] merge_strategy = "WeightedAverage" -> merge_by_weighted_average(embeddings)
           [] merge_strategy = "FirstWindow" ->
                [status |-> "Ok", error |-> "", merged |-> CloneEmbedding(embeddings[1])]
           [] merge_strategy = "LastWindow" ->
                [status |-> "Ok", error |-> "",
                 merged |-> CloneEmbedding(embeddings[Len(embeddings)])]

MaxEmbeddings == 3

MaxDim == 2

EmbeddingValues == {0, 1, 3}

Embeddings == UNION {[1..d -> EmbeddingValues] : d \in 0..MaxDim}

InitMerger ==
    /\ NoChunker
    /\ OthersUnused
    /\ tokenization_cache = TokenizationCacheDefault
    /\ sliding = NoSliding
    /\ stack = NoStack
    /\ snapshots = <<>>
    /\ \E n \in 0..MaxEmbeddings :
         \E embeddings \in [1..n -> Embeddings], merge_strategy \in MergeStrategies :
            merger = [embeddings |-> embeddings, merge_strategy |-> merge_strategy,
                      status |-> "None", error |-> "", merged |-> <<>>]

MergeEmbeddings ==
    /\ merger.status = "None"
    /\ LET r == merge_embeddings(merger.embeddings, merger.merge_strategy)
       IN  merger' = [merger EXCEPT !.status = r.status, !.error = r.error,
                                    !.merged = r.merged]
    /\ UNCHANGED <<chunker_vars, sliding, stack, snapshots, other_vars>>

NextMerger == MergeEmbeddings

SpecMerger == InitMerger /\ [][NextMerger]_vars

(***************************************************************************)
(* StackWithHistory.  An Operation is <<"Push", item>> or <<"Pop">>.       *)
(* snapshots is not a field of the struct: it keeps, for every operation   *)
(* in history, the contents the stack had when the operation was applied.  *)
(***************************************************************************)
MaxStackOps == 4

MaxInitial == 2

MaxStackLen == 4

StackItems == {10, 20}

\* Vec::pop on the contents
PopVec(v) == IF v = <<>> THEN v ELSE SubSeq(v, 1, Len(v) - 1)

StackNew == [current_state |-> <<>>, history |-> <<>>, initial_state |-> <<>>]

StackNewWith(initial) ==
    [current_state |-> initial, history |-> <<>>, initial_state |-> initial]

StackWithCapacity(capacity) ==
    [current_state |-> <<>>, history |-> <<>>, initial_state |-> <<>>]

stack_push(self, item) ==
    [self EXCEPT !.current_state = Append(@, item),
                 !.history = Append(@, <<"Push", item>>)]

stack_pop(self) ==
    IF self.current_state = <<>> THEN self
    ELSE [self EXCEPT !.current_state = PopVec(@), !.history = Append(@, <<"Pop">>)]

clear_history(self) == [self EXCEPT !.history = <<>>]

clear_all(self) == [self EXCEPT !.current_state = <<>>, !.history = <<>>]

RECURSIVE ApplyOperations(_, _)
ApplyOperations(past_state, operations_to_apply) ==
    IF operations_to_apply = <<>> THEN past_state
    ELSE LET op == Head(operations_to_apply)
         IN  ApplyOperations(IF op[1] = "Push" THEN Append(past_state, op[2])
                             ELSE PopVec(past_state),
                             Tail(operations_to_apply))

\* state_before_operations rebuilding from an empty stack
state_before_operations_from_empty(self, n) ==
    IF n = 0 THEN self.current_state
    ELSE IF n >= Len(self.history) THEN self.initial_state
    ELSE ApplyOperations(<<>>, SubSeq(self.history, 1, Len(self.history) - n))

state_before_operations(self, n) ==
    IF n = 0 THEN self.current_state
    ELSE IF n >= Len(self.history) THEN self.initial_state
    ELSE ApplyOperations(self.initial_state,
                         SubSeq(self.history, 1, Len(self.history) - n))

InitStack ==
    /\ NoChunker
    /\ OthersUnused
    /\ tokenization_cache = TokenizationCacheDefault
    /\ sliding = NoSliding
    /\ merger = NoMerger
    /\ snapshots = <<>>
    /\ \/ stack = StackNew
       \/ \E capacity \in 0..MaxInitial : stack = StackWithCapacity(capacity)
       \/ \E k \in 0..MaxInitial : \E initial \in [1..k -> StackItems] :
             stack = StackNewWith(initial)

StackUnchanged == UNCHANGED <<chunker_vars, sliding, merger, other_vars>>

Push ==
    /\ Len(stack.history) < MaxStackOps
    /\ Len(stack.current_state) < MaxStackLen
    /\ \E item \in StackItems : stack' = stack_push(stack, item)
    /\ snapshots' = Append(snapshots, stack.current_state)
    /\ StackUnchanged

Pop ==
    /\ Len(stack.history) < MaxStackOps
    /\ stack' = stack_pop(stack)
    /\ snapshots' = IF stack.current_state = <<>> THEN snapshots
                    ELSE Append(snapshots, stack.current_state)
    /\ StackUnchanged

ClearHistory ==
    /\ stack' = clear_history(stack)
    /\ snapshots' = <<>>
    /\ StackUnchanged

ClearAll ==
    /\ stack' = clear_all(stack)
    /\ snapshots' = <<>>
    /\ StackUnchanged

NextStack ==
    \/ Push
    \/ Pop
    \/ ClearHistory
    \/ ClearAll

SpecStack == InitStack /\ [][NextStack]_vars

(***************************************************************************)
(* ScopedCache with tasks that evaluate cache! or cache_ok! on it.  A task *)
(* can be suspended at each await of the macro: after get, after the       *)
(* computation, after store.  get and store each hold the RwLock for their *)
(* whole body, so each is one step.  A computation yields a value, or      *)
(* "Err" under cache_ok!.  first and computed are not fields of the        *)
(* struct: the value stored first under a key, and the number of           *)
(* computations that have yielded a value for it.                          *)
(***************************************************************************)
MaxTasks == 3

ScopedTasks == 1..MaxTasks

ScopedKeys == {"k1", "k2"}

ScopedValues == {1, 2}

\* ScopedCache::get
scoped_get(cache, key) == cache[key]

\* ScopedCache::store
scoped_store(cache, key, value) == [cache EXCEPT ![key] = Some(value)]

\* what an evaluation of the macro returns: a value, or Err(e) under cache_ok!
NoReturn == [status |-> "None", value |-> None]

Returned(value) == [status |-> "Ok", value |-> value]

ReturnedErr == [status |-> "Err", value |-> None]

IdleTask == [pc |-> "idle", macro |-> "", key |-> "", value |-> None, ret |-> NoReturn]

InitScoped ==
    /\ NoChunker
    /\ tokenization_cache = TokenizationCacheDefault
    /\ sliding = NoSliding
    /\ merger = NoMerger
    /\ stack = NoStack
    /\ snapshots = <<>>
    /\ shutdown = NoShutdown
    /\ recorded = <<>>
    /\ scoped = [cache |-> [k \in ScopedKeys |-> None],
                 tasks |-> [t \in ScopedTasks |-> IdleTask],
                 first |-> [k \in ScopedKeys |-> None],
                 computed |-> [k \in ScopedKeys |-> 0]]

ScopedUnchanged ==
    UNCHANGED <<chunker_vars, sliding, merger, stack, snapshots, shutdown, recorded>>

\* a task reaches the macro: $cache.get(&$key) is about to be awaited
MacroEnter(t) ==
    /\ scoped.tasks[t].pc = "idle"
    /\ \E macro \in {"cache", "cache_ok"}, key \in ScopedKeys :
         scoped' = [scoped EXCEPT !.tasks[t] =
                       [IdleTask EXCEPT !.pc = "get", !.macro = macro, !.key = key]]
    /\ ScopedUnchanged

\* if let Some(value) = $cache.get(&$key).await
MacroGet(t) ==
    /\ scoped.tasks[t].pc = "get"
    /\ LET found == scoped_get(scoped.cache, scoped.tasks[t].key)
       IN  scoped' = IF found # None
                     THEN [scoped EXCEPT !.tasks[t].pc = "done",
                                        !.tasks[t].ret = Returned(found)]
                     ELSE [scoped EXCEPT !.tasks[t].pc = "compute"]
    /\ ScopedUnchanged

\* let value = $heavy_computation.await
MacroCompute(t) ==
    /\ scoped.tasks[t].pc = "compute"
    /\ \/ \E v \in ScopedValues :
            scoped' = [scoped EXCEPT !.tasks[t].pc = "store",
                                     !.tasks[t].value = Some(v),
                                     !.computed[scoped.tasks[t].key] = @ + 1]
       \/ /\ scoped.tasks[t].macro = "cache_ok"
          /\ scoped' = [scoped EXCEPT !.tasks[t].pc = "done",
                                      !.tasks[t].ret = ReturnedErr]
    /\ ScopedUnchanged

\* $cache.store($key, value.clone()).await; value
MacroStore(t) ==
    /\ scoped.tasks[t].pc = "store"
    /\ LET key == scoped.tasks[t].key
           value == scoped.tasks[t].value[1]
       IN  scoped' = [scoped EXCEPT
                        !.cache = scoped_store(@, key, value),
                        !.first[key] = IF @ = None THEN Some(value) ELSE @,
                        !.tasks[t].pc = "done",
                        !.tasks[t].ret = Returned(Some(value))]
    /\ ScopedUnchanged

NextScoped ==
    \E t \in ScopedTasks :
       \/ MacroEnter(t)
       \/ MacroGet(t)
       \/ MacroCompute(t)
       \/ MacroStore(t)

SpecScoped == InitScoped /\ [][NextScoped]_vars

(***************************************************************************)
(* create_lock_and_wait: an unbounded mpsc channel whose sender lives in   *)
(* the ShutdownLock and its clones, and whose receiver is the ShutdownWait.*)
(* Nothing is ever sent: lock_sender is private and no method sends.  A    *)
(* lock is "none" (not created yet), "alive" or "gone".  The runtime wakes *)
(* the receiver when the last sender is dropped, hence the fairness on     *)
(* WaitReturn.                                                             *)
(***************************************************************************)
MaxLocks == 5

Locks == 1..MaxLocks

\* recv completing as soon as one sender has been dropped
recv_completes_on_first_drop(locks) == \E l \in Locks : locks[l] = "gone"

\* UnboundedReceiver::recv with an empty queue completes (with None) only
\* when every sender has been dropped
recv_completes(locks) == \A l \in Locks : locks[l] # "alive"

InitShutdown ==
    /\ NoChunker
    /\ tokenization_cache = TokenizationCacheDefault
    /\ sliding = NoSliding
    /\ merger = NoMerger
    /\ stack = NoStack
    /\ snapshots = <<>>
    /\ scoped = NoScoped
    /\ recorded = <<>>
    /\ shutdown = [locks |-> [l \in Locks |-> IF l = 1 THEN "alive" ELSE "none"],
                   wait |-> "idle"]

ShutdownUnchanged ==
    UNCHANGED <<chunker_vars, sliding, merger, stack, snapshots, scoped, recorded>>

\* #[derive(Clone)] on ShutdownLock: a task clones a lock it holds
CloneLock ==
    /\ \E l \in Locks, m \in Locks :
         /\ shutdown.locks[l] = "alive"
         /\ shutdown.locks[m] = "none"
         /\ shutdown' = [shutdown EXCEPT !.locks[m] = "alive"]
    /\ ShutdownUnchanged

\* ShutdownLock::unlock
Unlock ==
    /\ \E l \in Locks :
         /\ shutdown.locks[l] = "alive"
         /\ shutdown' = [shutdown EXCEPT !.locks[l] = "gone"]
    /\ ShutdownUnchanged

\* a ShutdownLock goes out of scope
DropLock ==
    /\ \E l \in Locks :
         /\ shutdown.locks[l] = "alive"
         /\ shutdown' = [shutdown EXCEPT !.locks[l] = "gone"]
    /\ ShutdownUnchanged

\* ShutdownWait::wait is called: recv() is awaited
WaitCall ==
    /\ shutdown.wait \in {"idle", "returned"}
    /\ shutdown' = [shutdown EXCEPT !.wait = "waiting"]
    /\ ShutdownUnchanged

\* recv() completes and wait returns
WaitReturn ==
    /\ shutdown.wait = "waiting"
    /\ recv_completes(shutdown.locks)
    /\ shutdown' = [shutdown EXCEPT !.wait = "returned"]
    /\ ShutdownUnchanged

NextShutdown ==
    \/ CloneLock
    \/ Unlock
    \/ DropLock
    \/ WaitCall
    \/ WaitReturn

SpecShutdown == InitShutdown /\ [][NextShutdown]_vars /\ WF_vars(WaitReturn)

(***************************************************************************)
(* ChunkingStatistics of its own: record_token_stats called with any token *)
(* counts.  recorded is not a field of the struct: the counts given so far.*)
(***************************************************************************)
MaxRecorded == 4

MaxTokenCount == 3

InitStatistics ==
    /\ NoChunker
    /\ tokenization_cache = TokenizationCacheDefault
    /\ UtilitiesUnused

RecordTokenStats ==
    /\ Len(recorded) < MaxRecorded
    /\ \E token_count \in 0..MaxTokenCount :
         /\ statistics' = record_token_stats(statistics, token_count)
         /\ recorded' = Append(recorded, token_count)
    /\ UNCHANGED <<config, token_provider, fallback_strategy, tokenization_cache, pc, text,
                   run, sent, forced, merge, adjust, result, history, batch>>
    /\ UNCHANGED <<sliding, merger, stack, snapshots, scoped, shutdown>>

NextStatistics == RecordTokenStats

SpecStatistics == InitStatistics /\ [][NextStatistics]_vars

(***************************************************************************)
(* adjust_positions_with_tokenizer on its own: any chunk positions and     *)
(* token counts, and any token spans of byte offsets within the text.      *)
(* text and run.final_chunks are the arguments, adjust.token_spans the     *)
(* spans; pc goes from "adjust_call" to "adjusted" or "panicked".          *)
(***************************************************************************)
MaxAdjustChunks == 2

MaxAdjustTokens == 2

MaxAdjustPos == 2

MaxSpans == 2

AdjustTexts == {<<>>, <<12354>>, <<12354, 12354>>, <<97, 97>>}

AdjustChunks ==
    {HierarchicalChunk(<<97>>, Iota(n), char_start, char_end, "CompleteParagraph", 0) :
        n \in 0..MaxAdjustTokens, char_start \in 0..1, char_end \in 0..MaxAdjustPos}

SpansOf(t) == {<<a, b>> : a \in 0..ByteLen(t), b \in 0..ByteLen(t)}

InitAdjust ==
    /\ UtilitiesUnused
    /\ batch = NoBatch
    /\ config = [max_chunk_tokens |-> 0, min_chunk_tokens |-> 0,
                 enable_paragraph_merging |-> FALSE,
                 enable_sentence_splitting |-> FALSE,
                 enable_forced_splitting |-> FALSE]
    /\ token_provider = "MockSpans"
    /\ fallback_strategy = "CharacterEstimation"
    /\ tokenization_cache = TokenizationCacheDefault
    /\ statistics = StatisticsNew
    /\ pc = "adjust_call"
    /\ text \in AdjustTexts
    /\ \E n \in 0..MaxAdjustChunks : \E chunks \in [1..n -> AdjustChunks] :
         run = [NoRun EXCEPT !.final_chunks = chunks]
    /\ \E n \in 0..MaxSpans : \E token_spans \in [1..n -> SpansOf(text)] :
         /\ \A i \in 1..n : token_spans[i][1] <= token_spans[i][2]
         /\ adjust = [token_spans |-> token_spans]
    /\ sent = NoSent
    /\ forced = NoForced
    /\ merge = NoMerge
    /\ result = NoResult
    /\ history = <<>>

AdjustPositionsWithTokenizer ==
    /\ pc = "adjust_call"
    /\ \E o \in adjust_positions_with_tokenizer(text, run.final_chunks,
                                                 adjust.token_spans) :
         /\ pc' = IF o.err = "panic" THEN "panicked" ELSE "adjusted"
         /\ run' = [run EXCEPT !.final_chunks = o.chunks]
    /\ UNCHANGED util_vars
    /\ UNCHANGED <<batch, config, token_provider, fallback_strategy, tokenization_cache,
                   statistics, text, sent, forced, merge, adjust, result, history>>

NextAdjust == AdjustPositionsWithTokenizer

SpecAdjust == InitAdjust /\ [][NextAdjust]_vars

(***************************************************************************)
(* chunk_efficiently on texts of several paragraphs: up to MaxParagraphs   *)
(* paragraphs, each one of ParagraphContents, separated by blank lines.    *)
(***************************************************************************)
MaxParagraphs == 3

ParagraphContents == {<<97>>, <<12354>>, <<12354, 12354>>}

ParagraphTexts ==
    {Join(ps, <<10, 10>>) : ps \in UNION {[1..n -> ParagraphContents] : n \in 1..MaxParagraphs}}

ChunkEfficientlyParagraphs ==
    /\ pc = "idle"
    /\ \E t \in ParagraphTexts : ChunkEfficientlyOn(t)
    /\ UNCHANGED batch

NextParagraphs ==
    \/ New
    \/ ChunkEfficientlyParagraphs
    \/ ProcessParagraph
    \/ ProcessSentence
    \/ FinishSentences
    \/ ForcedSplitStep
    \/ ForcedSplitReturn
    \/ FinishParagraphs
    \/ MergeStep
    \/ MergeFinish
    \/ AdjustCharacterPositions
    \/ StringSearchStep
    \/ FinishChunking

SpecParagraphs == Init /\ [][NextParagraphs]_vars

(***************************************************************************)
(* chunk_efficiently on one paragraph of several sentences: up to          *)
(* MaxSentences sentences, each one of SentenceContents.                   *)
(***************************************************************************)
MaxSentences == 4

SentenceContents == {<<97, 33>>, <<12354, 33>>, <<12354, 12354, 12354, 33>>}

SentenceTexts ==
    {Join(ss, <<>>) : ss \in UNION {[1..n -> SentenceContents] : n \in 1..MaxSentences}}

ChunkEfficientlySentences ==
    /\ pc = "idle"
    /\ \E t \in SentenceTexts : ChunkEfficientlyOn(t)
    /\ UNCHANGED batch

NextSentences ==
    \/ New
    \/ ChunkEfficientlySentences
    \/ ProcessParagraph
    \/ ProcessSentence
    \/ FinishSentences
    \/ ForcedSplitStep
    \/ ForcedSplitReturn
    \/ FinishParagraphs
    \/ MergeStep
    \/ MergeFinish
    \/ AdjustCharacterPositions
    \/ StringSearchStep
    \/ FinishChunking

SpecSentences == Init /\ [][NextSentences]_vars

(***************************************************************************)
(* Properties.                                                             *)
(***************************************************************************)
ReturnedOk == pc = "returned" /\ result.status = "Ok"

\* s with spaces, tabs and newlines removed
RECURSIVE StripBlanks(_)
StripBlanks(s) ==
    IF s = <<>> THEN <<>>
    ELSE IF s[1] \in {32, 9, 10} THEN StripBlanks(Tail(s))
    ELSE <<s[1]>> \o StripBlanks(Tail(s))

\* the token count of t as the chunker's token source computes it
TokenCountOf(t) ==
    (CHOOSE o \in calculate_token_count(Self, TokenizationCacheDisabled, t) : TRUE).v

\* C1: whenever chunk_efficiently returns Ok, every returned chunk has at most
\* max_chunk_tokens tokens, whatever its chunk type and token source.
C1_EveryChunkWithinMaxTokens ==
    ReturnedOk =>
        \A i \in 1..Len(result.chunks) :
            Len(result.chunks[i].tokens) <= config.max_chunk_tokens

\* C2: chunk_efficiently never aborts on an out-of-range index or slice, and the
\* string-search cursor is at most the text length whenever the text is sliced
\* from it.
C2_NeverPanics ==
    /\ pc # "panicked"
    /\ pc = "string_search" => adjust.current_search_pos <= ByteLen(text)

\* C3: every iteration of the forced-splitting loop moves start_pos strictly
\* forward (find_forced_split_position returns end_pos > start_pos), so the
\* loop terminates.
C3_ForcedSplitAdvances ==
    [][(pc = "forced" /\ pc' = "forced") =>
          /\ forced'.start_pos > forced.start_pos
          /\ forced'.start_pos <= Len(forced.chars)]_vars

\* C4: every returned chunk has 0 <= char_start <= char_end <= the length of
\* the original text in characters.
C4_PositionsWithinTextChars ==
    ReturnedOk =>
        \A i \in 1..Len(result.chunks) :
            /\ 0 <= result.chunks[i].char_start
            /\ result.chunks[i].char_start <= result.chunks[i].char_end
            /\ result.chunks[i].char_end <= Len(text)

\* C5: the returned list is sorted ascending by (char_start, char_end) and the
\* chunk at position i has chunk_index i (0-based).
C5_SortedAndIndexed ==
    ReturnedOk =>
        /\ \A i \in 1..Len(result.chunks) : result.chunks[i].chunk_index = i - 1
        /\ \A i \in 1..Len(result.chunks) - 1 :
              \/ result.chunks[i].char_start < result.chunks[i + 1].char_start
              \/ /\ result.chunks[i].char_start = result.chunks[i + 1].char_start
                 /\ result.chunks[i].char_end <= result.chunks[i + 1].char_end

\* a call returned several chunks at different places, one of them made by a
\* later stage of the pipeline than its successor in the list
C5_Witness ==
    /\ ReturnedOk
    /\ Len(result.chunks) >= 2
    /\ \E i \in 1..Len(result.chunks) - 1 :
          /\ result.chunks[i].char_start < result.chunks[i + 1].char_start
          /\ result.chunks[i].chunk_type # result.chunks[i + 1].chunk_type

\* C6: for every returned chunk, the characters of the original text in
\* [char_start, char_end) equal the chunk's content once spaces, tabs and
\* newlines are removed from both.
C6_RangeHoldsContent ==
    ReturnedOk =>
        \A i \in 1..Len(result.chunks) :
            LET c == result.chunks[i]
            IN  /\ c.char_start <= c.char_end
                /\ c.char_end <= Len(text)
                /\ StripBlanks(SubSeq(text, c.char_start + 1, c.char_end))
                     = StripBlanks(c.content)

\* C7: with paragraph merging disabled, every non-empty paragraph below
\* min_chunk_tokens is in the output as a CompleteParagraph chunk of its own.
C7_SmallParagraphsKept ==
    (ReturnedOk /\ ~config.enable_paragraph_merging) =>
        LET paragraphs == detect_paragraph_boundaries_fast(text)
        IN  \A k \in 1..Len(paragraphs) :
              LET paragraph_trimmed == Trim(paragraphs[k].content)
              IN  (paragraph_trimmed # <<>>
                   /\ TokenCountOf(paragraph_trimmed) < config.min_chunk_tokens)
                  => \E i \in 1..Len(result.chunks) :
                        /\ result.chunks[i].chunk_type = "CompleteParagraph"
                        /\ result.chunks[i].content = paragraph_trimmed

\* C8: every returned chunk has at least min_chunk_tokens tokens and
\* char_end > char_start.
C8_MinTokensAndNonEmpty ==
    ReturnedOk =>
        \A i \in 1..Len(result.chunks) :
            /\ Len(result.chunks[i].tokens) >= config.min_chunk_tokens
            /\ result.chunks[i].char_end > result.chunks[i].char_start

\* a call with a positive minimum returned chunks, fewer than it had created
C8_Witness ==
    /\ ReturnedOk
    /\ config.min_chunk_tokens >= 1
    /\ Len(result.chunks) >= 1
    /\ Len(history) = 1
    /\ statistics.total_chunks_created > Len(result.chunks)

\* C9: every call of chunk_efficiently on the same chunker and text returns
\* what the first call returned, whatever the state of the cache.
C9_SameResultEveryCall ==
    \A i \in 1..Len(history) : history[i] = history[1]

\* a second call returned several chunks on a chunker whose cache had been
\* configured small enough to evict entries during the calls
C9_Witness ==
    /\ pc = "returned"
    /\ Len(history) = 2
    /\ history[2].status = "Ok"
    /\ Len(history[2].chunks) >= 2
    /\ history[2].chunks[1].content # history[2].chunks[2].content
    /\ tokenization_cache.enabled
    /\ tokenization_cache.max_cache_size \in 2..MaxCacheSize
    /\ tokenization_cache.estimation_cache # EmptyMap

\* C10: validate fails exactly when max_chunk_tokens = 0, or min_chunk_tokens
\* >= max_chunk_tokens, or both sentence and forced splitting are disabled;
\* the constructors return a Configuration error exactly then, new_fallback
\* also when the strategy is RequireTokenProvider.
C10_ConstructorRejectsExactlyInvalid ==
    LET invalid == \/ config.max_chunk_tokens = 0
                   \/ config.min_chunk_tokens >= config.max_chunk_tokens
                   \/ (~config.enable_sentence_splitting
                       /\ ~config.enable_forced_splitting)
    IN  /\ (validate(config).err # "") <=> invalid
        /\ pc # "new" =>
              /\ (pc = "config_error") <=>
                    (invalid \/ (token_provider = "None"
                                 /\ fallback_strategy = "RequireTokenProvider"))
              /\ pc = "config_error" =>
                    result.status = "Err" /\ result.error = "Configuration"

\* a constructor refused a configuration whose only fault is
\* min_chunk_tokens = max_chunk_tokens
C10_Witness ==
    /\ pc = "config_error"
    /\ config.max_chunk_tokens > 0
    /\ config.min_chunk_tokens = config.max_chunk_tokens
    /\ config.enable_sentence_splitting
    /\ fallback_strategy # "RequireTokenProvider"

\* some paragraph of the text holds a sentence whose token count alone exceeds
\* max_chunk_tokens
HasOversizedSentence ==
    LET paragraphs == detect_paragraph_boundaries_fast(text)
    IN  \E k \in 1..Len(paragraphs) :
          LET sentences == SentenceSplit(Trim(paragraphs[k].content))
          IN  \E j \in 1..Len(sentences) :
                /\ Trim(sentences[j]) # <<>>
                /\ TokenCountOf(Trim(sentences[j])) > config.max_chunk_tokens

\* C11: with forced splitting disabled and sentence splitting enabled, a call
\* of chunk_efficiently ends in a Configuration error exactly when some
\* paragraph holds a single sentence over max_chunk_tokens; it then returns no
\* chunk list.
C11_ForcedDisabledIsConfigurationError ==
    (/\ pc \in {"returned", "panicked"}
     /\ ~config.enable_forced_splitting
     /\ config.enable_sentence_splitting)
    => /\ HasOversizedSentence <=>
             (result.status = "Err" /\ result.error = "Configuration")
       /\ result.status = "Err" => result.chunks = <<>>

\* the error was returned for a text whose first sentence fits and whose
\* second does not
C11_Witness ==
    /\ pc = "returned"
    /\ ~config.enable_forced_splitting
    /\ result.status = "Err"
    /\ result.error = "Configuration"
    /\ Len(text) >= 2
    /\ text[1] = 33
    /\ TokenCountOf(<<text[1]>>) <= config.max_chunk_tokens

\* the call provider.get_token_spans(text) that adjust_character_positions
\* makes on every run that reaches step 4 failed
TokenSpansCallFailed ==
    /\ token_provider # "None"
    /\ Trim(text) # <<>>
    /\ provider_get_token_spans(token_provider, text).err # ""

\* C12: when a token-provider call made during chunk_efficiently fails, the
\* call returns Err with a TokenProvider or Tokenization error; no failure is
\* absorbed into a successful result.
C12_ProviderFailureSurfaced ==
    (pc = "returned" /\ TokenSpansCallFailed /\ result.error # "Configuration")
    => /\ result.status = "Err"
       /\ result.error \in {"TokenProvider", "Tokenization"}

\* C13: chunk_efficiently on an empty or whitespace-only text returns Ok with
\* an empty chunk list at once, for every configuration and token source.
C13_BlankTextIsEmptyOk ==
    (pc \notin {"new", "idle", "config_error"} /\ Trim(text) = <<>>)
    => /\ pc = "returned"
       /\ result = [status |-> "Ok", error |-> "", chunks |-> <<>>]

\* a call on a text of several whitespace characters has returned
C13_Witness ==
    /\ pc = "returned"
    /\ Len(text) >= 2
    /\ Trim(text) = <<>>
    /\ history = <<[status |-> "Ok", error |-> "", chunks |-> <<>>]>>

\* C14: after every cache_estimate and cache_tokens call on an enabled
\* TokenizationCache::new(max_cache_size), the estimate store and the
\* tokenization store each hold at most max_cache_size entries.
C14_StoresWithinMaxCacheSize ==
    (pc = "none" /\ tokenization_cache.enabled)
    => /\ Cardinality(DOMAIN tokenization_cache.estimation_cache)
            <= tokenization_cache.max_cache_size
       /\ Cardinality(DOMAIN tokenization_cache.tokenization_cache)
            <= tokenization_cache.max_cache_size

\* C15: whenever calculate_sliding_windows returns Ok, the windows cover the
\* text: the first starts at 0, each later one starts at or before the end of
\* the one before it, and the last ends at text_length.
C15_WindowsCoverText ==
    sliding.status = "Ok"
    => LET positions == sliding.positions
       IN  /\ Len(positions) >= 1
           /\ positions[1][1] = 0
           /\ \A i \in 2..Len(positions) : positions[i][1] <= positions[i - 1][2]
           /\ positions[Len(positions)][2] = sliding.text_length

\* the i-th window (from 0) of the sliding scheme
WindowAt(i) ==
    <<i * sliding.window_stride,
      Min(i * sliding.window_stride + (sliding.max_seq_length - sliding.instruction_length),
          sliding.text_length)>>

WindowSize(window) == window[2] - window[1]

\* the returned list is the sliding scheme's windows 0, 1, ... up to the first
\* that ends at text_length or up to a window shorter than min_window_size
WindowsOfScheme ==
    LET positions == sliding.positions
        n == Len(positions)
    IN  IF sliding.text_length <= sliding.max_seq_length - sliding.instruction_length
        THEN positions = <<<<0, sliding.text_length>>>>
        ELSE /\ n >= 1
             /\ \A i \in 1..n : positions[i] = WindowAt(i - 1)
             /\ \A i \in 1..(n - 1) : positions[i][2] # sliding.text_length
             /\ \A i \in 2..n : WindowSize(positions[i]) >= sliding.min_window_size
             /\ \/ positions[n][2] = sliding.text_length
                \/ WindowSize(WindowAt(n)) < sliding.min_window_size

ScenarioE ==
    (/\ sliding.text_length = 1000 /\ sliding.instruction_length = 2
     /\ sliding.max_seq_length = 512 /\ sliding.window_stride = 256
     /\ sliding.min_window_size = 64 /\ sliding.status # "None")
    => /\ sliding.status = "Ok"
       /\ sliding.positions = <<<<0, 510>>, <<256, 766>>, <<512, 1000>>>>

\* C16: a returned list is [(0, text_length)] when the text fits one window,
\* else the windows (i*stride, min(i*stride + w, text_length)) up to the first
\* that ends at text_length, or up to a non-first window shorter than
\* min_window_size, which is left out; Scenario E gives its three windows.
C16_WindowsAsStated ==
    /\ sliding.status = "Ok" => WindowsOfScheme
    /\ ScenarioE

\* C17: calculate_sliding_windows returns a Configuration error exactly when
\* instruction_length >= max_seq_length, and returns Ok in every other case.
C17_ErrorIffInstructionTooLong ==
    sliding.status # "None"
    => IF sliding.instruction_length >= sliding.max_seq_length
       THEN sliding.status = "Err" /\ sliding.error = "Configuration"
       ELSE sliding.status = "Ok"

\* C18: merge_embeddings returns a Validation error when the list is empty
\* or some vector's dimension differs from the first's, under every strategy;
\* otherwise Ok with a vector of the common dimension: the first vector for
\* FirstWindow, the last for LastWindow, the input when there is one vector.
C18_MergeValidatesThenMerges ==
    merger.status # "None"
    => LET embeddings == merger.embeddings
       IN  IF \/ embeddings = <<>>
              \/ \E i \in 1..Len(embeddings) : Len(embeddings[i]) # Len(embeddings[1])
           THEN merger.status = "Err" /\ merger.error = "Validation"
           ELSE /\ merger.status = "Ok"
                /\ Len(merger.merged) = Len(embeddings[1])
                /\ merger.merge_strategy = "FirstWindow"
                     => merger.merged = CloneEmbedding(embeddings[1])
                /\ merger.merge_strategy = "LastWindow"
                     => merger.merged = CloneEmbedding(embeddings[Len(embeddings)])
                /\ Len(embeddings) = 1 => merger.merged = CloneEmbedding(embeddings[1])

\* FirstWindow was given a second vector of another dimension and failed
C18_Witness ==
    /\ merger.status = "Err"
    /\ merger.merge_strategy = "FirstWindow"
    /\ Len(merger.embeddings) = 2
    /\ Len(merger.embeddings[1]) # Len(merger.embeddings[2])

\* the contents of the stack before the last n recorded operations
ContentsBefore(n) ==
    IF n = 0 \/ stack.history = <<>> THEN stack.current_state
    ELSE IF n >= Len(stack.history) THEN snapshots[1]
    ELSE snapshots[Len(stack.history) - n + 1]

\* C20: for a StackWithHistory made by new, with_capacity or new_with and
\* driven by push, pop, clear_history and clear_all, state_before_operations(n)
\* is the contents the stack had before its last n recorded operations: the
\* current contents for n = 0, the contents at the oldest recorded operation
\* for n >= history_len, the last n pushes and pops undone in between.
C20_StateBeforeOperationsIsPastContents ==
    /\ Len(snapshots) = Len(stack.history)
    /\ \A n \in 0..(MaxStackOps + 1) :
         state_before_operations(stack, n) = ContentsBefore(n)

\* C19: batch_chunk_efficiently(texts) takes the texts in order; when it
\* succeeds its i-th element is what chunk_efficiently(texts[i]) returns, and
\* that is what a fresh chunker with the same configuration and provider
\* returns for texts[i]; when a text fails the call returns that error.
C19_BatchEqualsFreshCalls ==
    /\ batch.status = "Ok"
         => /\ Len(batch.results) = Len(batch.texts)
            /\ \A i \in 1..Len(batch.texts) :
                 history[i] = [status |-> "Ok", error |-> "", chunks |-> batch.results[i]]
    /\ batch.status = "Err"
         => \E k \in 1..Len(batch.texts) :
              /\ \A i \in 1..(k - 1) : history[i].status = "Ok"
              /\ history[k].status = "Err"
              /\ batch.error = history[k].error
              /\ Len(history) = k \/ batch.compared
    /\ (batch.compared /\ pc \in {"returned", "panicked"})
         => /\ pc = "returned"
            /\ batch.status = "Ok" => Len(history) = Len(batch.texts) + 1
            /\ batch.status = "Err" => history[Len(history) - 1].status = "Err"
            /\ \E i \in 1..(Len(history) - 1) : batch.texts[i] = text
            /\ \A i \in 1..(Len(history) - 1) :
                 batch.texts[i] = text => history[i] = result

\* a batch of two different texts has returned its two chunk lists, the
\* second text has been chunked by a fresh chunker, and it has a chunk
C19_Witness ==
    /\ batch.status = "Ok"
    /\ batch.compared
    /\ pc = "returned"
    /\ Len(batch.texts) = 2
    /\ batch.texts[1] # batch.texts[2]
    /\ text = batch.texts[2]
    /\ batch.results[1] # <<>>
    /\ result.chunks # <<>>

\* C21: in one ScopedCache, whatever the interleaving of the tasks that
\* evaluate cache! or cache_ok! on a key, at most one computation for the key
\* yields a value, the cache keeps the value stored first, every evaluation
\* that returns a value returns that one, and an Err stores nothing.
C21_ComputedOnceFirstValueReturned ==
    /\ \A k \in ScopedKeys :
         /\ scoped.computed[k] <= 1
         /\ scoped.cache[k] = scoped.first[k]
         /\ scoped.computed[k] = 0 => scoped.cache[k] = None
    /\ \A t \in ScopedTasks :
         (scoped.tasks[t].pc = "done" /\ scoped.tasks[t].ret.status = "Ok")
         => scoped.tasks[t].ret.value = scoped.first[scoped.tasks[t].key]

SomeLockAlive == \E l \in Locks : shutdown.locks[l] = "alive"

\* C22: ShutdownWait::wait has not returned while a ShutdownLock, the original
\* or a clone, is alive, and a pending wait returns once every one of them
\* has been unlocked or dropped.
C22_WaitReturnsExactlyWhenAllLocksGone ==
    /\ [](shutdown.wait = "returned" => ~SomeLockAlive)
    /\ ((shutdown.wait = "waiting" /\ ~SomeLockAlive) ~> shutdown.wait = "returned")

\* wait has returned after the original lock and two clones went away
C22_Witness ==
    /\ shutdown.wait = "returned"
    /\ Cardinality({l \in Locks : shutdown.locks[l] = "gone"}) = 3

\* C28: after any record_token_stats calls, zero counts included,
\* max_tokens_in_chunk is the greatest recorded count, min_tokens_in_chunk the
\* least, and total_tokens_processed their sum.
C28_MaxMinTotalOfRecorded ==
    (pc = "none" /\ recorded # <<>>)
    => /\ \E i \in 1..Len(recorded) : statistics.max_tokens_in_chunk = recorded[i]
       /\ \A i \in 1..Len(recorded) : statistics.max_tokens_in_chunk >= recorded[i]
       /\ \E i \in 1..Len(recorded) : statistics.min_tokens_in_chunk = recorded[i]
       /\ \A i \in 1..Len(recorded) : statistics.min_tokens_in_chunk <= recorded[i]
       /\ statistics.total_tokens_processed = SumTo(recorded, Len(recorded))

\* C30: calculate_sliding_windows terminates and returns for every
\* combination of arguments, window_stride = 0 and min_window_size = 0
\* included.
C30_SlidingWindowsReturns ==
    sliding.status # "None" => sliding.status \in {"Ok", "Err"}

\* the detected paragraphs of the text whose trimmed content is p
ParagraphsWithContent(p) ==
    LET paragraphs == detect_paragraph_boundaries_fast(text)
    IN  {k \in 1..Len(paragraphs) : Trim(paragraphs[k].content) = p}

\* the returned CompleteParagraph chunks whose content is p
CompleteParagraphChunksOf(p) ==
    {i \in 1..Len(result.chunks) :
        /\ result.chunks[i].chunk_type = "CompleteParagraph"
        /\ result.chunks[i].content = p}

\* C23: every detected paragraph with min_chunk_tokens <= token count <=
\* max_chunk_tokens is in the output of chunk_efficiently as exactly one
\* CompleteParagraph chunk holding the trimmed paragraph (one chunk per
\* paragraph when several paragraphs have the same text).
C23_FittingParagraphsAreChunks ==
    ReturnedOk =>
        LET paragraphs == detect_paragraph_boundaries_fast(text)
        IN  \A k \in 1..Len(paragraphs) :
              LET paragraph_trimmed == Trim(paragraphs[k].content)
                  token_count == TokenCountOf(paragraph_trimmed)
              IN  (/\ paragraph_trimmed # <<>>
                   /\ token_count >= config.min_chunk_tokens
                   /\ token_count <= config.max_chunk_tokens)
                  => Cardinality(CompleteParagraphChunksOf(paragraph_trimmed))
                       = Cardinality(ParagraphsWithContent(paragraph_trimmed))

\* the provider gave token spans for the text: positions are reconciled by
\* adjust_positions_with_tokenizer
TokenSpansGiven ==
    /\ token_provider # "None"
    /\ provider_get_token_spans(token_provider, text).err = ""
    /\ provider_get_token_spans(token_provider, text).v # None

\* C27: after adjust_positions_with_tokenizer every chunk has
\* char_start <= char_end <= text_length, whether it was repositioned from the
\* token spans or kept its positions.
C27_TokenizerPositionsOrdered ==
    (pc = "adjusted" \/ (pc = "filter" /\ TokenSpansGiven))
    => \A i \in 1..Len(run.final_chunks) :
          /\ run.final_chunks[i].char_start <= run.final_chunks[i].char_end
          /\ run.final_chunks[i].char_end <= Len(text)

\* the paragraphs k..l of the text, trimmed and joined by blank lines
JoinedParagraphs(k, l) ==
    LET paragraphs == detect_paragraph_boundaries_fast(text)
    IN  Join([i \in 1..(l - k + 1) |-> Trim(paragraphs[k + i - 1].content)], <<10, 10>>)

\* chunk is the join of small paragraphs that follow one another in the text
IsRunOfSmallParagraphs(chunk) ==
    LET paragraphs == detect_paragraph_boundaries_fast(text)
    IN  \E k \in 1..Len(paragraphs) : \E l \in k..Len(paragraphs) :
          /\ chunk.content = JoinedParagraphs(k, l)
          /\ \A i \in k..l :
               /\ Trim(paragraphs[i].content) # <<>>
               /\ TokenCountOf(Trim(paragraphs[i].content)) < config.min_chunk_tokens

\* C24: every MergedParagraphs chunk is the blank-line join, in text order,
\* of small paragraphs that are consecutive in the original text, and its
\* token count is at most max_chunk_tokens.
C24_MergedChunksJoinConsecutiveParagraphs ==
    ReturnedOk =>
        \A i \in 1..Len(result.chunks) :
            result.chunks[i].chunk_type = "MergedParagraphs"
            => /\ IsRunOfSmallParagraphs(result.chunks[i])
               /\ TokenCountOf(result.chunks[i].content) <= config.max_chunk_tokens

\* the end of the range the binary search looks at from start_pos
ForcedSearchEnd(start_pos) == Min(start_pos + config.max_chunk_tokens * 3, Len(forced.chars))

\* the end offsets e of that range whose text chars[start_pos..e] fits the budget
FittingEnds(start_pos) ==
    {e \in (start_pos + 1)..ForcedSearchEnd(start_pos) :
        TokenCountOf(SubSeq(forced.chars, start_pos + 1, e)) <= config.max_chunk_tokens}

\* the token count does not decrease as the prefix chars[start_pos..e] grows
MonotoneTokenCount(start_pos) ==
    \A e1, e2 \in (start_pos + 1)..Len(forced.chars) :
        e1 <= e2 => TokenCountOf(SubSeq(forced.chars, start_pos + 1, e1))
                      <= TokenCountOf(SubSeq(forced.chars, start_pos + 1, e2))

\* C26: for a monotone token count the binary search of
\* find_forced_split_position yields the largest fitting end offset of its
\* range, as a linear scan would; the offset returned is never greater than
\* it and the text up to the returned offset fits max_chunk_tokens.
C26_ForcedSplitPositionIsLargestFitting ==
    pc = "forced" =>
        /\ (/\ forced.start_pos < Len(forced.chars)
            /\ MonotoneTokenCount(forced.start_pos)
            /\ FittingEnds(forced.start_pos) # {})
           => \A b \in ForcedBinarySearch(Self, tokenization_cache, forced.chars,
                                          forced.start_pos, forced.start_pos + 1,
                                          ForcedSearchEnd(forced.start_pos),
                                          forced.start_pos + 1) :
                /\ b.v \in FittingEnds(forced.start_pos)
                /\ \A e \in FittingEnds(forced.start_pos) : e <= b.v
        /\ \A i \in 1..Len(forced.chunks) :
             MonotoneTokenCount(forced.chunks[i].char_start)
             => /\ \A e \in (forced.chunks[i].char_start + 1)..forced.chunks[i].char_end :
                     e <= ForcedSearchEnd(forced.chunks[i].char_start)
                /\ TokenCountOf(forced.chunks[i].content) <= config.max_chunk_tokens

\* the contents of chunks one after the other
RECURSIVE ConcatContents(_)
ConcatContents(chunks) ==
    IF chunks = <<>> THEN <<>>
    ELSE chunks[1].content \o ConcatContents(Tail(chunks))

\* apply_forced_splitting leaves its loop and returns Ok(forced.chunks)
ForcedSplittingReturnsOk == pc = "forced" /\ forced.start_pos >= Len(forced.chars)

\* C29: whenever apply_forced_splitting returns Ok, its chunks partition the
\* characters of its text: the first starts at offset 0, each starts where
\* the one before ends, none is empty, the last ends at the character count,
\* and the contents in order make up the text.
C29_ForcedChunksPartitionText ==
    ForcedSplittingReturnsOk =>
        /\ forced.chunks # <<>> => forced.chunks[1].char_start = 0
        /\ \A i \in 1..Len(forced.chunks) :
             /\ forced.chunks[i].char_start < forced.chunks[i].char_end
             /\ forced.chunks[i].content # <<>>
             /\ forced.chunks[i].content
                  = SubSeq(forced.chars, forced.chunks[i].char_start + 1,
                           forced.chunks[i].char_end)
             /\ i > 1 => forced.chunks[i].char_start = forced.chunks[i - 1].char_end
        /\ forced.chunks # <<>>
             => forced.chunks[Len(forced.chunks)].char_end = Len(forced.chars)
        /\ forced.chars # <<>> => forced.chunks # <<>>
        /\ ConcatContents(forced.chunks) = forced.chars

C29_Witness ==
    /\ ForcedSplittingReturnsOk
    /\ Len(forced.chunks) >= 2
    /\ \E i \in 1..Len(forced.chunks) : forced.chunks[i].content[1] = 32

\* the sentences of paragraph, trimmed, without the empty ones
TrimmedSentences(paragraph) ==
    LET sentences == SentenceSplit(paragraph)
        trimmed == [i \in 1..Len(sentences) |-> Trim(sentences[i])]
        NotEmpty(t) == t # <<>>
    IN  SelectSeq(trimmed, NotEmpty)

\* what is left of group as one item: its single-space join
GroupItem(group) ==
    IF group = <<>> THEN <<>>
    ELSE <<[chunk_type |-> "SentenceBasedSplit", content |-> Join(group, <<32>>)]>>

\* The grouping of sentences[i..] after the open run group: a sentence over
\* the budget closes the run and stands alone as a ForcedSplit item, a
\* sentence that still fits the run joins it, and any other sentence closes
\* the run and opens the next one.
RECURSIVE SentenceGroups(_, _, _)
SentenceGroups(sentences, i, group) ==
    IF i > Len(sentences) THEN GroupItem(group)
    ELSE LET s == sentences[i]
             combined == IF group = <<>> THEN s ELSE Join(group, <<32>>) \o <<32>> \o s
         IN  IF TokenCountOf(s) > config.max_chunk_tokens
             THEN GroupItem(group) \o <<[chunk_type |-> "ForcedSplit", content |-> s]>>
                  \o SentenceGroups(sentences, i + 1, <<>>)
             ELSE IF TokenCountOf(combined) <= config.max_chunk_tokens
             THEN SentenceGroups(sentences, i + 1, Append(group, s))
             ELSE GroupItem(group) \o SentenceGroups(sentences, i + 1, <<s>>)

\* chunks is items read in order: one SentenceBasedSplit chunk for a run, one
\* or more ForcedSplit chunks that together hold the sentence for a
\* ForcedSplit item
RECURSIVE ChunksMatchItems(_, _)
ChunksMatchItems(items, chunks) ==
    IF items = <<>> THEN chunks = <<>>
    ELSE IF chunks = <<>> THEN FALSE
    ELSE IF items[1].chunk_type = "SentenceBasedSplit"
    THEN /\ chunks[1].chunk_type = "SentenceBasedSplit"
         /\ chunks[1].content = items[1].content
         /\ ChunksMatchItems(Tail(items), Tail(chunks))
    ELSE \E n \in 1..Len(chunks) :
           /\ \A j \in 1..n : chunks[j].chunk_type = "ForcedSplit"
           /\ ConcatContents(SubSeq(chunks, 1, n)) = items[1].content
           /\ ChunksMatchItems(Tail(items), SubSeq(chunks, n + 1, Len(chunks)))

\* split_paragraph_by_sentences, splitting by sentences, returns Ok: its
\* chunks are pushed onto final_chunks and the paragraph loop goes on
SplitBySentencesReturns ==
    /\ config.enable_sentence_splitting
    /\ pc \in {"sentences", "forced"}
    /\ pc' = "paragraphs"

C25_Step ==
    SplitBySentencesReturns =>
        LET paragraph == Trim(run.paragraphs[run.paragraph_index + 1].content)
            split_chunks == SubSeq(run'.final_chunks, Len(run.final_chunks) + 1,
                                   Len(run'.final_chunks))
        IN  ChunksMatchItems(SentenceGroups(TrimmedSentences(paragraph), 1, <<>>),
                             split_chunks)

\* C25: for an oversized paragraph the chunks split_paragraph_by_sentences
\* returns hold every non-empty trimmed sentence once and in order: each
\* SentenceBasedSplit chunk is the single-space join of a maximal run of
\* consecutive sentences within max_chunk_tokens, and each sentence over the
\* budget is replaced in place by its ForcedSplit chunks.
C25_SentenceChunksAreMaximalRuns == [][C25_Step]_vars

C25_Witness ==
    /\ config.enable_sentence_splitting
    /\ pc = "paragraphs"
    /\ \E i, j, k \in 1..Len(run.final_chunks) :
         /\ i < j /\ j < k
         /\ run.final_chunks[i].chunk_type = "SentenceBasedSplit"
         /\ \E n \in 1..Len(run.final_chunks[i].content) :
              run.final_chunks[i].content[n] = 32
         /\ run.final_chunks[j].chunk_type = "ForcedSplit"
         /\ run.final_chunks[k].chunk_type = "SentenceBasedSplit"

====
